---- MODULE Spec2Model ----
(***************************************************************************)
(* A model of the retrieval-augmented question-answering pipeline:        *)
(*   - the three query entry points of the chatbot service               *)
(*     (main.py ask_question, api/routes/chat.py ask_question,            *)
(*      main.py ask_question_stream) with the embedding, vector-index    *)
(*     and generation providers they call;                                *)
(*   - the indexing job of scripts/embedding-indexer/index-content.py.    *)
(***************************************************************************)
EXTENDS Integers, Sequences, FiniteSets, TLC

VARIABLES
    \* ---- query side (one request in flight; requests share no mutable state)
    clientsInitialized, \* chat.py: the router's three module globals are set
    entry,              \* which entry point serves the request
    request,            \* the ChatRequest: question, selected_text, language
    candidates,         \* what the vector index ranked for this query: <<payload, score>>
    qpc,                \* position of the handler
    query_embedding,    \* local of the handler
    context_chunks,     \* local of the handler
    calls,              \* provider calls issued for this request, in order
    response,           \* what the entry point gave back
    stream,             \* the generation provider's stream: its state and the increments pulled
                        \* (pulled counts them, increments holds them in provider order)
    consumer,           \* the caller's side of a streamed answer: how many events it has
                        \* received, and how many increments had been pulled when it
                        \* disconnected (-1 while connected)
    \* ---- indexing side
    runs,               \* the indexing runs of this behaviour
    store,              \* the vector index: collection name -> (point id -> point)
    ipc,                \* position of each run inside index_content
    params,             \* each run's arguments: collection_name, language, content_dir
    collection_names,   \* each run's local listing of the collections
    chunks_to_embed,    \* each run's local list of surviving chunks
    i,                  \* each run's loop variable (embedding loop, then upload loop)
    points,             \* each run's local list of points
    trace,              \* each run's provider calls, sleeps and prints, in order
    started,            \* how many times each run process has been started
    store_before,       \* history: the vector index as it was when the run started
    created,            \* history: successful create_collection calls per name
    last_upsert,        \* history: per collection and point id, the run that upserted it last
    completed,          \* history: per run process, the collection and the points at each completion
    \* ---- the text functions of the indexer, called on their own
    fn_call,            \* the call: extract_sections(content) or chunk_text(text, max_length)
    fn_return           \* what the call returned, once it has

qvars == <<clientsInitialized, entry, request, candidates, qpc, query_embedding,
           context_chunks, calls, response, stream, consumer>>
ivars == <<runs, store, ipc, params, collection_names, chunks_to_embed, i, points,
           trace, started, store_before, created, last_upsert, completed>>
tvars == <<fn_call, fn_return>>
vars == <<qvars, ivars, tvars>>

None == "None"        \* Python's None where a string may stand
Unset == <<>>         \* a list-valued local or field that holds no list (unbound, or None)

Min(a, b) == IF a < b THEN a ELSE b

\* All sequences over S of length at most n.
SeqsUpTo(S, n) == UNION {[1..k -> S] : k \in 0..n}

\* The k-th smallest element of a set of numbers.
KthSmallest(S, k) == CHOOSE x \in S : Cardinality({y \in S : y < x}) = k - 1

\* The concatenation of a sequence of sequences.
RECURSIVE Flatten(_)
Flatten(seqs) == IF Len(seqs) = 0 THEN <<>> ELSE seqs[1] \o Flatten(Tail(seqs))

(***************************************************************************)
(* Bounds of the model.                                                    *)
(***************************************************************************)
MaxCandidates == 3     \* points the index may rank for one query
MaxDeltas == 2         \* increments a provider stream may deliver
MaxRaw == 112          \* chunks the chunker may hand to one indexing run
MaxStarts == 2         \* times the indexing job is run in sequence

(***************************************************************************)
(* Program constants.                                                      *)
(***************************************************************************)
max_context_chunks == 5     \* config.py: limit passed to search by main.py
min_similarity_score == 5   \* config.py: 0.5, in tenths
router_limit == 5           \* chat.py: limit=5
router_score_threshold == 5 \* chat.py: score_threshold=0.5, in tenths
min_chunk_length == 50      \* index-content.py:167
embed_batch_size == 20      \* index-content.py:186
upload_batch_size == 100    \* index-content.py:216
question_min_length == 5           \* main.py:52, chat.py:36: min_length=5
question_max_length == 1000        \* main.py:52, chat.py:36: max_length=1000
selected_text_max_length == 5000   \* main.py:53, chat.py:37: max_length=5000

Languages == {"en", "ur"}
EntryPoints == {"app", "router", "stream"}

\* Python truthiness of an Optional[str]: None and "" are falsy.
Truthy(s) == s # None /\ s # ""

(***************************************************************************)
(* The fixed texts of the handlers.  The Urdu literals are named by their  *)
(* place in the source; MessageLanguage gives the language a literal is    *)
(* written in.                                                             *)
(***************************************************************************)
AppNotFoundEn == "I couldn't find relevant information in the textbook to answer your question. Try rephrasing or browse the chapters directly."
AppNotFoundUr == "[Urdu literal, main.py:140]"
RouterNotFound == "I couldn't find relevant information in the textbook to answer your question."
StreamNotFoundEn == "I couldn't find relevant information in the textbook to answer your question."
StreamNotFoundUr == "[Urdu literal, main.py:214]"
GenerationError == "Error generating response: <exception text>"
StreamError == "Error: <exception text>"

UrduLiterals == {AppNotFoundUr, StreamNotFoundUr}
MessageLanguage(m) == IF m \in UrduLiterals THEN "ur" ELSE "en"

\* main.py:140: the conditional expression on language
AppFallback(language) == IF language = "en" THEN AppNotFoundEn ELSE AppNotFoundUr

\* chat.py:100: one literal, whatever the language
RouterFallback(language) == RouterNotFound

\* main.py:214
StreamFallback(language) == IF language = "en" THEN StreamNotFoundEn ELSE StreamNotFoundUr

(***************************************************************************)
(* Requests and index contents the model draws from.                       *)
(***************************************************************************)
Questions == {"What is ROS 2?"}
SelectedTexts == {None, "", " ", "A node is a process that performs computation."}

ChatRequests == [question : Questions, selected_text : SelectedTexts, language : Languages]

(***************************************************************************)
(* Validation of the request body (the ChatRequest model of main.py and    *)
(* of chat.py, applied by the framework before the handler is entered).    *)
(***************************************************************************)
\* Texts too long to write out, named by their length.
QuestionOf1000 == "<a question of 1000 characters>"
QuestionOf1001 == "<a question of 1001 characters>"
SelectionOf5000 == "<a selection of 5000 characters>"
SelectionOf5001 == "<a selection of 5001 characters>"

\* len(v)
len(v) ==
    CASE v = QuestionOf1000 -> 1000
      [] v = QuestionOf1001 -> 1001
      [] v = SelectionOf5000 -> 5000
      [] v = SelectionOf5001 -> 5001
      [] OTHER -> Len(v)

\* The texts of the model that v.strip() leaves empty.
WhitespaceOnly == {"", " ", "     ", " \n \t "}

\* main.py:56-60, chat.py:40-44: if not v.strip(): raise ValueError
question_must_not_be_empty(v) ==
    IF v \in WhitespaceOnly
    THEN [raised |-> TRUE, value |-> None]
    ELSE [raised |-> FALSE, value |-> v]

\* main.py:54, chat.py:38: regex="^(en|ur)$", applied with re.match.  In
\* Python's re, $ matches at the end of the string and also just before a
\* newline that ends the string.
LanguagePattern(v) == v \in {"en", "ur", "en\n", "ur\n"}

\* main.py:51-60, chat.py:35-44: the field constraints and the validator
Validates(req) ==
    /\ len(req.question) >= question_min_length
    /\ len(req.question) <= question_max_length
    /\ ~question_must_not_be_empty(req.question).raised
    /\ req.selected_text # None => len(req.selected_text) <= selected_text_max_length
    /\ LanguagePattern(req.language)

\* Request bodies at and beyond the limits of the model.
EdgeRequests ==
    {[question |-> q, selected_text |-> None, language |-> "en"] :
        q \in {"", "Hi", "     ", " \n \t ", QuestionOf1001}}
    \cup {[question |-> q, selected_text |-> "A node is a process that performs computation.",
           language |-> "en"] : q \in {"  a  ", QuestionOf1000}}
    \cup {[question |-> "What is ROS 2?", selected_text |-> t, language |-> "ur"] :
           t \in {SelectionOf5000, SelectionOf5001}}
    \cup {[question |-> "What is ROS 2?",
           selected_text |-> "A node is a process that performs computation.",
           language |-> l] : l \in {"", "fr", "EN", "english", "en\n", "ur\n"}}

RawRequests == ChatRequests \cup EdgeRequests

\* Payloads as the indexer stores them (chapter_id, section_id, section_title, content).
Payloads == {
    [chapter_id |-> "chapter-02-ros2", section_id |-> "nodes",
     section_title |-> "Nodes", content |-> "A node is a process that performs computation."],
    [chapter_id |-> "intro", section_id |-> "intro",
     section_title |-> "Introduction", content |-> "This textbook covers Physical AI."] }

Scores == {4, 5}     \* similarity in tenths: below the 0.5 floor, and on it

Candidates == SeqsUpTo(Payloads \X Scores, MaxCandidates)

\* The answers the generation provider may give.
Completions == {"ROS 2 is a robotics middleware."}
Deltas == {"", "ROS"}

(***************************************************************************)
(* Providers.  An outcome is what the external service does with a call.   *)
(***************************************************************************)
ProviderOutcomes == {"ok", "error"}

\* Mutant of embed_query: a provider error is swallowed into a zero vector.
embed_query_ZeroVector(outcome, text) ==
    IF outcome = "ok"
    THEN [raised |-> FALSE, value |-> <<"search_query", text>>]
    ELSE [raised |-> FALSE, value |-> <<"zero_vector", text>>]

\* embeddings.py embed_query: the provider call is not wrapped, an error propagates.
embed_query(outcome, text) ==
    IF outcome = "ok"
    THEN [raised |-> FALSE, value |-> <<"search_query", text>>]
    ELSE [raised |-> TRUE, value |-> None]

\* The index's own search: the ranked points at or above the floor, at most limit.
ClientSearch(cands, limit, score_threshold) ==
    LET qualifying == SelectSeq(cands, LAMBDA c : c[2] >= score_threshold)
    IN  SubSeq(qualifying, 1, Min(limit, Len(qualifying)))

\* retrieval.py:75-82: one dict per hit
HitToDict(hit, language) ==
    [score |-> hit[2],
     chapter_id |-> hit[1].chapter_id,
     section_id |-> hit[1].section_id,
     section_title |-> hit[1].section_title,
     content |-> hit[1].content,
     language |-> language]

\* Mutant of search: the except branch re-raises instead of returning [].
search_Propagates(outcome, cands, language, limit, score_threshold) ==
    IF outcome = "ok"
    THEN LET hits == ClientSearch(cands, limit, score_threshold)
         IN  [raised |-> FALSE,
              value |-> [k \in 1..Len(hits) |-> HitToDict(hits[k], language)]]
    ELSE [raised |-> TRUE, value |-> <<>>]

\* retrieval.py QdrantRetriever.search: try / except Exception: return []
search(outcome, cands, language, limit, score_threshold) ==
    IF outcome = "ok"
    THEN LET hits == ClientSearch(cands, limit, score_threshold)
         IN  [raised |-> FALSE,
              value |-> [k \in 1..Len(hits) |-> HitToDict(hits[k], language)]]
    ELSE [raised |-> FALSE, value |-> <<>>]

\* Mutant of generate_response: the except branch returns nothing.
generate_response_ReturnsNone(outcome, completion) ==
    IF outcome = "ok"
    THEN [raised |-> FALSE, value |-> completion]
    ELSE [raised |-> FALSE, value |-> None]

\* Mutant of generate_response: no try around the provider call.
generate_response_Raises(outcome, completion) ==
    IF outcome = "ok"
    THEN [raised |-> FALSE, value |-> completion]
    ELSE [raised |-> TRUE, value |-> None]

\* llm.py generate_response: try / except Exception: return the error text
generate_response(outcome, completion) ==
    IF outcome = "ok"
    THEN [raised |-> FALSE, value |-> completion]
    ELSE [raised |-> FALSE, value |-> GenerationError]

(***************************************************************************)
(* Pieces of the handlers.                                                 *)
(***************************************************************************)
\* Mutant of UsesSelectedText: the test strips the text first.
UsesSelectedText_Stripped(req) == Truthy(req.selected_text) /\ req.selected_text # " "

\* main.py:118, main.py:193, chat.py:80: if request.selected_text:
UsesSelectedText(req) == Truthy(req.selected_text)

\* main.py:119-124, main.py:194-199, chat.py:81-86
SyntheticChunk(selected_text) ==
    [content |-> selected_text, section_title |-> "Selected Text",
     chapter_id |-> "unknown", section_id |-> "selected"]

\* _format_chapter_title: the table, else the id with hyphens as spaces, title-cased
TitleCased(chapter_id) ==
    CASE chapter_id = "unknown" -> "Unknown"
      [] chapter_id = "02-ros2" -> "02 Ros2"
      [] OTHER -> chapter_id
_format_chapter_title(chapter_id) ==
    CASE chapter_id = "intro" -> "Introduction"
      [] chapter_id = "chapter-01-foundations" -> "Physical AI Foundations"
      [] chapter_id = "chapter-02-ros2" -> "ROS 2"
      [] chapter_id = "chapter-03-gazebo" -> "Gazebo & Digital Twins"
      [] chapter_id = "chapter-04-isaac" -> "NVIDIA Isaac"
      [] chapter_id = "chapter-05-vla" -> "Vision-Language-Action Models"
      [] chapter_id = "chapter-06-capstone" -> "Capstone Project"
      [] OTHER -> TitleCased(chapter_id)

\* main.py:158-164, chat.py:118-124: one SourceReference
SourceReference(chunk, language) ==
    [chapter_id |-> chunk.chapter_id,
     chapter_title |-> _format_chapter_title(chunk.chapter_id),
     section_id |-> chunk.section_id,
     section_title |-> chunk.section_title,
     url |-> <<"/", language, "/docs/", chunk.chapter_id, "#", chunk.section_id>>]

\* Mutant of BuildSources: the citations come out in reverse order.
BuildSources_Reversed(chunks, language) ==
    [k \in 1..Len(chunks) |-> SourceReference(chunks[Len(chunks) + 1 - k], language)]

\* main.py:155-164, chat.py:115-124: the loop over context_chunks
BuildSources(chunks, language) ==
    [k \in 1..Len(chunks) |-> SourceReference(chunks[k], language)]

ChatResponse(answer, sources, language, out_of_scope, suggested_chapters) ==
    [kind |-> "ChatResponse", answer |-> answer, sources |-> sources,
     language |-> language, out_of_scope |-> out_of_scope,
     suggested_chapters |-> suggested_chapters]

HTTPException(status_code, detail) ==
    [kind |-> "HTTPException", status_code |-> status_code, detail |-> detail]

\* An exception that leaves the handler uncaught.
EscapedException == [kind |-> "Exception"]

StreamingResponse(events, closed) ==
    [kind |-> "StreamingResponse", events |-> events, closed |-> closed]

NoResponse == [kind |-> "none"]

\* The framework's answer to a body that fails the ChatRequest model.
RequestValidationError == HTTPException(422, "Unprocessable Entity")

\* main.py:216, main.py:226: one server-sent event
Event(data) == <<"data: ", data, "\n\n">>

\* Mutant of AppOutOfScope: the flag and the suggestions are left at their defaults.
AppOutOfScope_Defaults(language) ==
    [kind |-> "ChatResponse", answer |-> AppFallback(language), sources |-> <<>>,
     language |-> language, out_of_scope |-> FALSE, suggested_chapters |-> Unset]

\* main.py:139-145
AppOutOfScope(language) ==
    ChatResponse(AppFallback(language), <<>>, language, TRUE, <<"chapter-01-foundations">>)

\* chat.py:99-105
RouterOutOfScope(language) ==
    ChatResponse(RouterFallback(language), <<>>, language, TRUE, <<"chapter-01-foundations">>)

\* main.py:214-217: the whole stream is one event
StreamOutOfScope(language) ==
    StreamingResponse(<<Event(StreamFallback(language))>>, TRUE)

\* main.py:173-178, chat.py:133-138: except Exception -> 500; the streaming
\* handler has no try, so the exception leaves it.
OnException(e) ==
    IF e \in {"app", "router"}
    THEN HTTPException(500, "Failed to process question")
    ELSE EscapedException

(***************************************************************************)
(* The query entry points, one action per step of a handler.               *)
(***************************************************************************)
Call(name, outcome) == [call |-> name, outcome |-> outcome]

NoStream == [state |-> "none", pulled |-> 0, increments |-> <<>>]

\* The caller is connected and has received nothing yet.
Connected == [received |-> 0, cancelled_at |-> -1]

\* Mutant of Yielded: every increment is yielded, the empty ones included.
Yielded_All(events, delta) == Append(events, Event(delta))

\* llm.py:157-159 inside main.py:221-226: an increment with content is yielded
\* by the synthesizer and wrapped into one event; an empty one is skipped.
Yielded(events, delta) == IF delta # "" THEN Append(events, Event(delta)) ELSE events

Limit(e) == IF e = "router" THEN router_limit ELSE max_context_chunks
ScoreThreshold(e) == IF e = "router" THEN router_score_threshold ELSE min_similarity_score

OutOfScope(e, language) ==
    CASE e = "app" -> AppOutOfScope(language)
      [] e = "router" -> RouterOutOfScope(language)
      [] e = "stream" -> StreamOutOfScope(language)

\* chat.py initialize_clients
InitializeClients ==
    /\ UNCHANGED <<ivars, tvars>>
    /\ ~clientsInitialized
    /\ clientsInitialized' = TRUE
    /\ UNCHANGED <<entry, request, candidates, qpc, query_embedding, context_chunks,
                   calls, response, stream, consumer>>

\* A request body reaches an entry point: the framework builds the
\* ChatRequest and enters the handler, or answers 422 without entering it.
Receive(e, req) ==
    /\ UNCHANGED <<ivars, tvars>>
    /\ qpc \in {"idle", "done"}
    /\ entry' = e
    /\ request' = req
    /\ candidates' = <<>>
    /\ query_embedding' = None
    /\ context_chunks' = Unset
    /\ calls' = <<>>
    /\ IF Validates(req)
       THEN /\ qpc' = "begin"
            /\ response' = NoResponse
       ELSE /\ qpc' = "done"
            /\ response' = RequestValidationError
    /\ stream' = NoStream
    /\ UNCHANGED <<clientsInitialized, consumer>>

\* chat.py:70-74 (the router only), then main.py:118-124, main.py:193-199, chat.py:80-86
SelectContext ==
    /\ UNCHANGED <<ivars, tvars>>
    /\ qpc = "begin"
    /\ IF entry = "router" /\ ~clientsInitialized
       THEN /\ response' = HTTPException(503, "Service not initialized")
            /\ qpc' = "done"
            /\ UNCHANGED context_chunks
       ELSE IF UsesSelectedText(request)
       THEN /\ context_chunks' = <<SyntheticChunk(request.selected_text)>>
            /\ qpc' = "check"
            /\ UNCHANGED response
       ELSE /\ qpc' = "embed"
            /\ UNCHANGED <<context_chunks, response>>
    /\ UNCHANGED <<clientsInitialized, entry, request, candidates, query_embedding,
                   calls, stream, consumer>>

\* main.py:127, main.py:202, chat.py:89
EmbedQuery(outcome) ==
    /\ UNCHANGED <<ivars, tvars>>
    /\ qpc = "embed"
    /\ calls' = Append(calls, Call("embed", outcome))
    /\ LET r == embed_query(outcome, request.question)
       IN  IF r.raised
           THEN /\ response' = OnException(entry)
                /\ qpc' = "done"
                /\ UNCHANGED query_embedding
           ELSE /\ query_embedding' = r.value
                /\ qpc' = "search"
                /\ UNCHANGED response
    /\ UNCHANGED <<clientsInitialized, entry, request, candidates, context_chunks, stream, consumer>>

\* main.py:130-135, main.py:205-210, chat.py:90-95
Search(outcome, cands) ==
    /\ UNCHANGED <<ivars, tvars>>
    /\ qpc = "search"
    /\ calls' = Append(calls, Call("search", outcome))
    /\ candidates' = cands
    /\ LET r == search(outcome, cands, request.language, Limit(entry), ScoreThreshold(entry))
       IN  IF r.raised
           THEN /\ response' = OnException(entry)
                /\ qpc' = "done"
                /\ UNCHANGED context_chunks
           ELSE /\ context_chunks' = r.value
                /\ qpc' = "check"
                /\ UNCHANGED response
    /\ UNCHANGED <<clientsInitialized, entry, request, query_embedding, stream, consumer>>

\* main.py:138-145, main.py:212-217, chat.py:98-105: if not context_chunks
CheckContext ==
    /\ UNCHANGED <<ivars, tvars>>
    /\ qpc = "check"
    /\ IF context_chunks = <<>>
       THEN /\ response' = OutOfScope(entry, request.language)
            /\ qpc' = "done"
       ELSE IF entry = "stream"
       THEN /\ response' = StreamingResponse(<<>>, FALSE)  \* main.py:228
            /\ qpc' = "stream_create"
       ELSE /\ qpc' = "generate"
            /\ UNCHANGED response
    /\ UNCHANGED <<clientsInitialized, entry, request, candidates, query_embedding,
                   context_chunks, calls, stream, consumer>>

\* main.py:148-171, chat.py:108-131
Generate(outcome, completion) ==
    /\ UNCHANGED <<ivars, tvars>>
    /\ qpc = "generate"
    /\ calls' = Append(calls, Call("generate", outcome))
    /\ LET r == generate_response(outcome, completion)
       IN  IF r.raised
           THEN response' = OnException(entry)
           ELSE response' = ChatResponse(r.value,
                                         BuildSources(context_chunks, request.language),
                                         request.language, FALSE, Unset)
    /\ qpc' = "done"
    /\ UNCHANGED <<clientsInitialized, entry, request, candidates, query_embedding,
                   context_chunks, stream, consumer>>

\* llm.py:146-155 inside main.py:220-226: the generator's first step creates the stream
StreamCreate(outcome) ==
    /\ UNCHANGED <<ivars, tvars>>
    /\ qpc = "stream_create"
    /\ calls' = Append(calls, Call("generate", outcome))
    /\ IF outcome = "ok"
       THEN /\ stream' = [NoStream EXCEPT !.state = "open"]
            /\ qpc' = "stream_next"
            /\ UNCHANGED response
       ELSE /\ stream' = [NoStream EXCEPT !.state = "failed"]
            /\ response' = StreamingResponse(Append(response.events, Event(StreamError)), TRUE)
            /\ qpc' = "done"
    /\ UNCHANGED <<clientsInitialized, entry, request, candidates, query_embedding,
                   context_chunks, consumer>>

\* llm.py:157-162 inside main.py:220-226: one pull from the provider's stream
StreamNext(outcome, delta) ==
    /\ UNCHANGED <<ivars, tvars>>
    /\ qpc = "stream_next"
    /\ outcome = "delta" => stream.pulled < MaxDeltas
    /\ CASE outcome = "delta" ->
              /\ stream' = [stream EXCEPT !.pulled = @ + 1,
                                          !.increments = Append(@, delta)]
              /\ response' = StreamingResponse(Yielded(response.events, delta), FALSE)
              /\ qpc' = "stream_next"
         [] outcome = "end" ->
              /\ stream' = [stream EXCEPT !.state = "ended"]
              /\ response' = StreamingResponse(response.events, TRUE)
              /\ qpc' = "done"
         [] outcome = "error" ->
              /\ stream' = [stream EXCEPT !.state = "failed"]
              /\ response' = StreamingResponse(Append(response.events, Event(StreamError)), TRUE)
              /\ qpc' = "done"
    /\ UNCHANGED <<clientsInitialized, entry, request, candidates, query_embedding,
                   context_chunks, calls, consumer>>

QueryNext ==
    \/ InitializeClients
    \/ \E e \in EntryPoints, req \in RawRequests : Receive(e, req)
    \/ SelectContext
    \/ \E o \in ProviderOutcomes : EmbedQuery(o)
    \/ \E o \in ProviderOutcomes, c \in Candidates : Search(o, c)
    \/ CheckContext
    \/ \E o \in ProviderOutcomes, c \in Completions : Generate(o, c)
    \/ \E o \in ProviderOutcomes : StreamCreate(o)
    \/ \E o \in {"delta", "end", "error"}, d \in Deltas : StreamNext(o, d)

QueryInit ==
    /\ clientsInitialized = FALSE
    /\ entry = "app"
    /\ request = [question |-> "What is ROS 2?", selected_text |-> None, language |-> "en"]
    /\ candidates = <<>>
    /\ qpc = "idle"
    /\ query_embedding = None
    /\ context_chunks = Unset
    /\ calls = <<>>
    /\ response = NoResponse
    /\ stream = NoStream
    /\ consumer = Connected

IndexIdle ==
    /\ runs = {}
    /\ store = <<>>
    /\ ipc = <<>>
    /\ params = <<>>
    /\ collection_names = <<>>
    /\ chunks_to_embed = <<>>
    /\ i = <<>>
    /\ points = <<>>
    /\ trace = <<>>
    /\ started = <<>>
    /\ store_before = <<>>
    /\ created = <<>>
    /\ last_upsert = <<>>
    /\ completed = <<>>

\* No text function is being called.
NoCall == [fn |-> "none"]
NotReturned == [done |-> FALSE]
TextIdle ==
    /\ fn_call = NoCall
    /\ fn_return = NotReturned

Init == QueryInit /\ IndexIdle /\ TextIdle
Next == QueryNext
Spec == Init /\ [][Next]_vars

(***************************************************************************)
(* Properties of the query entry points.                                   *)
(***************************************************************************)
Called(name) == \E k \in DOMAIN calls : calls[k].call = name
Failed(name) == \E k \in DOMAIN calls : calls[k].call = name /\ calls[k].outcome = "error"

\* The request ran in search-context and the search gave the handler nothing.
SearchedEmpty == qpc = "done" /\ Called("search") /\ context_chunks = <<>>

SuggestsChapters(r) == Len(r.suggested_chapters) > 0

IsOutOfScopeChatResponse(r) ==
    /\ r.kind = "ChatResponse"
    /\ r.out_of_scope = TRUE
    /\ r.sources = <<>>
    /\ SuggestsChapters(r)

\* C1 as stated: in search-context, whenever the index search yields an empty
\* result set, every query entry point (the streaming one included) returns a
\* response with out_of_scope=true, no sources and a non-empty
\* suggested_chapters list, and makes no generation call.
C1_Original ==
    SearchedEmpty => (IsOutOfScopeChatResponse(response) /\ ~Called("generate"))

\* C1 amended: in search-context, whenever the index search yields an empty
\* result set, no entry point calls the generation provider; the two
\* request/response entry points return out_of_scope=true, no sources and a
\* non-empty suggested_chapters list; the streaming entry point returns a
\* closed stream of exactly one event, the not-found message, which carries
\* no flag, sources or suggestions.
C1_EmptySearchIsOutOfScope ==
    SearchedEmpty =>
        /\ ~Called("generate")
        /\ entry \in {"app", "router"} => IsOutOfScopeChatResponse(response)
        /\ entry = "stream" =>
              /\ response.kind = "StreamingResponse"
              /\ response.closed
              /\ response.events = <<Event(StreamFallback(request.language))>>

\* A request whose search ranked points, all of them below the score floor.
C1_Witness ==
    /\ SearchedEmpty
    /\ entry = "app"
    /\ Len(candidates) > 0
    /\ ~Failed("search")
    /\ response.kind = "ChatResponse" /\ response.out_of_scope

\* The synchronous generation call returned for this request.
GenerationReturned == qpc = "done" /\ entry \in {"app", "router"} /\ Called("generate")

\* C2: whenever the context chunk list is non-empty and generation returns
\* (generate_response, in either ask_question handler, with the provider's
\* text or with its inline error text), the response has out_of_scope=false
\* and one citation per retrieved chunk, in the order of the chunks, each with
\* its chunk's chapter_id and section_id.
C2_OneCitationPerChunk ==
    GenerationReturned =>
        /\ context_chunks # <<>>
        /\ response.kind = "ChatResponse"
        /\ response.out_of_scope = FALSE
        /\ Len(response.sources) = Len(context_chunks)
        /\ \A k \in DOMAIN context_chunks :
              /\ response.sources[k].chapter_id = context_chunks[k].chapter_id
              /\ response.sources[k].section_id = context_chunks[k].section_id

\* Two retrieved chunks of different sections, cited in retrieval order.
C2_Witness ==
    /\ GenerationReturned
    /\ Len(context_chunks) >= 2
    /\ context_chunks[1].section_id # context_chunks[2].section_id
    /\ Len(response.sources) = Len(context_chunks)

\* The handler has chosen its context (a router without clients answers 503 before).
ContextChosen == qpc \in {"check", "generate", "stream_create", "stream_next"}
                 \/ (qpc = "done" /\ response.kind \in {"ChatResponse", "StreamingResponse"})

SelectedTextContext ==
    context_chunks = <<[content |-> request.selected_text, section_title |-> "Selected Text",
                        chapter_id |-> "unknown", section_id |-> "selected"]>>

\* C3 as stated: whenever a request supplies selected_text, whatever its value,
\* no embedding call and no search call is made for it and the context is the
\* one synthetic "Selected Text" chunk holding the text verbatim.
C3_Original ==
    (qpc # "idle" /\ request.selected_text # None) =>
        /\ ~Called("embed") /\ ~Called("search")
        /\ ContextChosen => SelectedTextContext

\* C3 amended: whenever a request supplies a non-empty selected_text, no
\* embedding call and no search call is made for it, in each of the three
\* entry points, and the context the handler builds is exactly one synthetic
\* chunk with section_title "Selected Text" and the text verbatim as content.
\* An empty selected_text counts as absent: the request runs in search-context.
C3_SelectedTextBypass ==
    /\ (qpc # "idle" /\ Truthy(request.selected_text)) =>
          /\ ~Called("embed") /\ ~Called("search")
          /\ ContextChosen => SelectedTextContext
    /\ (qpc \notin {"idle", "begin", "embed"} /\ request.selected_text = ""
        /\ response.kind # "HTTPException") => Called("embed")

\* The streaming entry point finished a request grounded on a whitespace-only selection.
C3_Witness ==
    /\ qpc = "done"
    /\ entry = "stream"
    /\ request.selected_text = " "
    /\ SelectedTextContext
    /\ Called("generate")

\* The text of the not-found message a finished out-of-scope request carries.
FallbackText ==
    IF response.kind = "ChatResponse" THEN response.answer ELSE response.events[1][2]

OutOfScopeDone ==
    /\ qpc = "done"
    /\ context_chunks = <<>>
    /\ response.kind \in {"ChatResponse", "StreamingResponse"}

\* C4: when a query is out-of-scope, the fallback message is the fixed message
\* of the requested language ("ur" gets the Urdu one, "en" the English one), in
\* the application's ask_question, the router's ask_question and the
\* streaming endpoint.
C4_FallbackInRequestedLanguage ==
    OutOfScopeDone => MessageLanguage(FallbackText) = request.language

\* The well-formed response object: answer, sources, language, out_of_scope.
WellFormed(r) == r.kind = "ChatResponse" /\ r.language = request.language

\* C5 as stated: for every failure of the embedding provider, the vector index
\* or the generation provider, the entry point still returns a well-formed
\* response object, never an error status or an escaping exception.
C5_Original ==
    (qpc = "done" /\ (Failed("embed") \/ Failed("search") \/ Failed("generate"))) =>
        response.kind \notin {"HTTPException", "Exception"}

\* C5 amended: a failure of the vector index or of the generation provider
\* never crashes the request: after an index failure the entry point gives its
\* out-of-scope answer, after a generation failure ask_question returns
\* out_of_scope=false with the inline text "Error generating response: ..."
\* (in English whatever the language) and one citation per chunk, and the
\* stream ends with one "Error: ..." event; the response object echoes the
\* requested language.  A failure of the embedding provider aborts the query:
\* both ask_question handlers answer HTTP 500 and in the streaming entry point
\* the exception leaves the handler.
C5_ProviderFailures ==
    /\ (qpc = "done" /\ Failed("search")) =>
          /\ response.kind \notin {"HTTPException", "Exception"}
          /\ entry \in {"app", "router"} =>
                (WellFormed(response) /\ response.out_of_scope = TRUE)
    /\ (qpc = "done" /\ Failed("generate") /\ ~Failed("search")) =>
          /\ entry \in {"app", "router"} =>
                /\ WellFormed(response)
                /\ response.answer = GenerationError
                /\ response.out_of_scope = FALSE
                /\ Len(response.sources) = Len(context_chunks)
          /\ entry = "stream" =>
                /\ response.kind = "StreamingResponse"
                /\ response.closed
                /\ response.events[Len(response.events)] = Event(StreamError)
    /\ (qpc = "done" /\ Failed("embed")) =>
          /\ entry \in {"app", "router"} =>
                (response.kind = "HTTPException" /\ response.status_code = 500)
          /\ entry = "stream" => response.kind = "Exception"
          /\ ~Called("search") /\ ~Called("generate")

\* The generation provider failed under the router for an Urdu request.
C5_Witness ==
    /\ qpc = "done"
    /\ entry = "router"
    /\ request.language = "ur"
    /\ Failed("generate")
    /\ response.kind = "ChatResponse"
    /\ response.answer = GenerationError

\* C6: search never raises: when the vector-index call fails, search returns an
\* empty sequence and the query takes the out-of-scope path of a search that
\* found nothing (out_of_scope=true, the fallback message), with no generation
\* call.
C6_SearchFailureIsOutOfScope ==
    Failed("search") =>
        /\ context_chunks = <<>>
        /\ ~Called("generate")
        /\ qpc \in {"check", "done"}
        /\ qpc = "done" =>
              /\ response.kind \in {"ChatResponse", "StreamingResponse"}
              /\ response.kind = "ChatResponse" =>
                    /\ response.out_of_scope = TRUE
                    /\ response.sources = <<>>
                    /\ response.answer \in {AppNotFoundEn, AppNotFoundUr, RouterNotFound}
              /\ response.kind = "StreamingResponse" =>
                    /\ response.closed
                    /\ Len(response.events) = 1
                    /\ response.events[1][2] \in {StreamNotFoundEn, StreamNotFoundUr}

\* The index call failed although points above the floor were ranked.
C6_Witness ==
    /\ qpc = "done"
    /\ Failed("search")
    /\ \E k \in DOMAIN candidates : candidates[k][2] >= min_similarity_score
    /\ response.kind = "ChatResponse" /\ response.out_of_scope

\* The streaming entry point has started the synthesizer.
Synthesizing == entry = "stream" /\ stream.state # "none"

NonEmpty(increments) == SelectSeq(increments, LAMBDA d : d # "")
EventsOf(fragments) == [k \in 1..Len(fragments) |-> Event(fragments[k])]

Malformed(req) ==
    \/ req.language \notin {"en", "ur"}
    \/ len(req.question) < 5
    \/ req.question \in WhitespaceOnly
    \/ len(req.question) > 1000
    \/ (req.selected_text # None /\ len(req.selected_text) > 5000)

\* C12: a malformed request (language other than "en" or "ur", question
\* shorter than 5 characters or whitespace-only, over-long question or
\* selected text) is rejected before any call to the embedding provider, the
\* vector index or the generation provider is made.
C12_MalformedRejected ==
    (qpc # "idle" /\ Malformed(request)) =>
        /\ calls = <<>>
        /\ qpc = "done" => response = RequestValidationError

\* C26: a generation-provider failure in the synchronous mode is recovered
\* locally: generate_response returns an inline error message as the answer
\* text instead of raising, and the query response is then still built with
\* out_of_scope=false and one citation per context chunk.
C26_GenerationFailureRecovered ==
    (qpc = "done" /\ entry \in {"app", "router"} /\ Failed("generate")) =>
        /\ response.kind = "ChatResponse"
        /\ response.answer = GenerationError
        /\ response.out_of_scope = FALSE
        /\ Len(response.sources) = Len(context_chunks)
        /\ \A k \in DOMAIN context_chunks :
              /\ response.sources[k].chapter_id = context_chunks[k].chapter_id
              /\ response.sources[k].section_id = context_chunks[k].section_id
              /\ response.sources[k].section_title = context_chunks[k].section_title

\* The generation provider failed for a request of the application's
\* ask_question that had retrieved three chunks.
C26_Witness ==
    /\ qpc = "done"
    /\ entry = "app"
    /\ Failed("generate")
    /\ Len(context_chunks) = 3
    /\ response.answer = GenerationError
    /\ Len(response.sources) = 3

Pipeline == <<"embed", "search", "generate">>

\* C25: a single query in search-context runs as a linear pipeline: at most
\* one embedding call, then at most one index search, then at most one
\* generation call, in that order; the search is issued only after the
\* embedding call returned a vector, and if the embedding call fails neither
\* a search nor a generation call is made for that request.
C25_LinearPipeline ==
    (qpc # "idle" /\ ~UsesSelectedText(request)) =>
        /\ Len(calls) <= 3
        /\ \A k \in DOMAIN calls : calls[k].call = Pipeline[k]
        /\ Called("search") =>
              /\ calls[1].outcome = "ok"
              /\ query_embedding = <<"search_query", request.question>>
        /\ Failed("embed") =>
              /\ calls = <<Call("embed", "error")>>
              /\ qpc = "done"

\* A search-context request that went through the three calls, and whose
\* generation call failed.
C25_Witness ==
    /\ qpc = "done"
    /\ entry = "app"
    /\ ~UsesSelectedText(request)
    /\ calls = <<Call("embed", "ok"), Call("search", "ok"), Call("generate", "error")>>
    /\ response.kind = "ChatResponse"

(***************************************************************************)
(* A streamed answer and its caller.  The generator of main.py:220-226     *)
(* runs only while the response loop asks it for the next event; it is     *)
(* suspended at its yield while the loop sends the event to the caller.    *)
(***************************************************************************)
\* The response loop holds an event the generator yielded and has not sent yet.
Sending ==
    /\ response.kind = "StreamingResponse"
    /\ consumer.received < Len(response.events)

Disconnected == consumer.cancelled_at >= 0

\* main.py:221 and llm.py:157: the loop asked for the next event, the generator
\* goes on from its yield and pulls from the provider's stream.
Resume(outcome, delta) ==
    /\ ~Sending
    /\ StreamNext(outcome, delta)
    /\ UNCHANGED consumer

\* llm.py:146-155: the generator's first step, on the loop's first request
Start(outcome) ==
    /\ StreamCreate(outcome)
    /\ UNCHANGED consumer

\* main.py:226 under the response loop: the event the generator yielded is
\* sent to the caller.
Deliver ==
    /\ UNCHANGED <<ivars, tvars>>
    /\ Sending
    /\ ~Disconnected
    /\ consumer' = [consumer EXCEPT !.received = @ + 1]
    /\ UNCHANGED <<clientsInitialized, entry, request, candidates, qpc, query_embedding,
                   context_chunks, calls, response, stream>>

\* The caller goes away while the answer is being streamed.  Neither generator
\* looks at the connection and neither has a point of suspension other than
\* its yield: what runs goes on running to its next yield.
Disconnect ==
    /\ UNCHANGED <<ivars, tvars>>
    /\ response.kind = "StreamingResponse"
    /\ ~Disconnected
    /\ qpc # "done" \/ Sending
    /\ consumer' = [consumer EXCEPT !.cancelled_at = stream.pulled]
    /\ UNCHANGED <<clientsInitialized, entry, request, candidates, qpc, query_embedding,
                   context_chunks, calls, response, stream>>

\* The response loop finds the caller gone when it is to send an event and
\* closes the generator: GeneratorExit is raised at the yield of main.py:226 and
\* of llm.py:159, which `except Exception` (llm.py:161) does not catch, and the
\* generator's reference to the provider stream is dropped (no close is called).
Abandon ==
    /\ UNCHANGED <<ivars, tvars>>
    /\ Sending
    /\ Disconnected
    /\ qpc # "done"
    /\ stream' = [stream EXCEPT !.state = "dropped"]
    /\ response' = StreamingResponse(response.events, TRUE)
    /\ qpc' = "done"
    /\ UNCHANGED <<clientsInitialized, entry, request, candidates, query_embedding,
                   context_chunks, calls, consumer>>

\* What the index ranked for the requests of this specification.
StreamCandidates == {c \in Candidates : Len(c) <= 2}

\* The streaming entry point has returned its StreamingResponse over the
\* generator of main.py:220 (main.py:190-212 and 228 have run): the context
\* is the selected text, or what the search returned, and it is not empty.
StreamInit ==
    /\ IndexIdle
    /\ TextIdle
    /\ clientsInitialized = FALSE
    /\ entry = "stream"
    /\ request \in {req \in ChatRequests : Validates(req)}
    /\ IF UsesSelectedText(request)
       THEN /\ candidates = <<>>
            /\ query_embedding = None
            /\ calls = <<>>
            /\ context_chunks = <<SyntheticChunk(request.selected_text)>>
       ELSE /\ candidates \in StreamCandidates
            /\ query_embedding = embed_query("ok", request.question).value
            /\ calls = <<Call("embed", "ok"), Call("search", "ok")>>
            /\ context_chunks = search("ok", candidates, request.language,
                                       Limit("stream"), ScoreThreshold("stream")).value
    /\ context_chunks # <<>>
    /\ qpc = "stream_create"
    /\ response = StreamingResponse(<<>>, FALSE)
    /\ stream = NoStream
    /\ consumer = Connected

StreamStep ==
    \/ \E o \in ProviderOutcomes : Start(o)
    \/ \E o \in {"delta", "end", "error"}, d \in Deltas : Resume(o, d)
    \/ Deliver
    \/ Disconnect
    \/ Abandon

SpecStream == StreamInit /\ [][StreamStep]_vars

\* The text increments the caller has received (an error fragment is none).
ReceivedIncrements == Min(consumer.received, Len(NonEmpty(stream.increments)))

\* C23: when the consumer of a streaming answer cancels (caller disconnects)
\* after receiving k increments, no further increment is pulled from the
\* provider stream after the cancellation and the provider stream is
\* released; at no time has the producer pulled more than one increment
\* beyond what the consumer has received.
C23_CancellationStopsPulling ==
    /\ Disconnected => stream.pulled = consumer.cancelled_at
    /\ (Disconnected /\ qpc = "done") => stream.state # "open"
    /\ stream.pulled <= ReceivedIncrements + 1

(***************************************************************************)
(* The indexing job: index_content of index-content.py.                    *)
(***************************************************************************)
CollectionNames == {"textbook_en", "textbook_ur"}
NoPoints == [k \in {} |-> k]

\* The points a collection of the index holds (none if it does not exist).
PointsIn(st, name) == IF name \in DOMAIN st THEN st[name] ELSE NoPoints

CeilDiv(a, b) == (a + b - 1) \div b

\* md_file.stem.replace('chapter-', '').replace('intro', 'intro'), on the stems of the corpus
ChapterId(stem) ==
    CASE stem = "chapter-02-ros2" -> "02-ros2"
      [] stem = "chapter-01-foundations" -> "01-foundations"
      [] OTHER -> stem

\* The chunker's output for a content directory, flattened in processing order
\* (files, then sections, then chunks): m chunks, four to a section, the
\* first two sections in intro.md and the others in chapter-02-ros2.md, every
\* tenth chunk a fragment under the minimum length; len is the length of the
\* chunk once trimmed.
RawLength(j) == IF j % 10 = 3 THEN min_chunk_length - 1 ELSE min_chunk_length + (j % 7)
RawChunks(content_dir, m) ==
    [j \in 1..m |->
        [stem |-> IF j <= 8 THEN "intro" ELSE "chapter-02-ros2",
         header_id |-> <<"section", (j - 1) \div 4>>,
         title |-> <<"Section", (j - 1) \div 4>>,
         chunk_idx |-> (j - 1) % 4,
         chunk |-> <<content_dir, j>>,
         len |-> RawLength(j)]]

\* Mutant of Survives: a chunk of exactly the minimum length is skipped too.
Survives_Exclusive(raw) == raw.len > min_chunk_length

\* index-content.py:167: if len(chunk.strip()) < 50: continue
Survives(raw) == ~(raw.len < min_chunk_length)

\* Mutant of Item: the identifier is the chunk's index within its section.
Item_IdFromChunkIndex(raw, language, point_id) ==
    [chunk |-> raw.chunk,
     metadata |-> [chapter_id |-> ChapterId(raw.stem),
                   section_id |-> raw.header_id,
                   section_title |-> raw.title,
                   language |-> language,
                   chunk_index |-> raw.chunk_idx],
     point_id |-> raw.chunk_idx]

\* Mutant of Item: the chunk index is the run's counter, not the position in the section.
Item_IndexFromCounter(raw, language, point_id) ==
    [chunk |-> raw.chunk,
     metadata |-> [chapter_id |-> ChapterId(raw.stem),
                   section_id |-> raw.header_id,
                   section_title |-> raw.title,
                   language |-> language,
                   chunk_index |-> point_id],
     point_id |-> point_id]

\* index-content.py:170-180: the entry appended for a surviving chunk
Item(raw, language, point_id) ==
    [chunk |-> raw.chunk,
     metadata |-> [chapter_id |-> ChapterId(raw.stem),
                   section_id |-> raw.header_id,
                   section_title |-> raw.title,
                   language |-> language,
                   chunk_index |-> raw.chunk_idx],
     point_id |-> point_id]

\* Mutant of StartId: the counter starts after the identifiers the collection holds.
StartId_AfterExisting(existing) ==
    IF existing = {} THEN 0 ELSE 1 + CHOOSE id \in existing : \A id2 \in existing : id2 <= id

\* index-content.py:150: point_id = 0, whatever the collection holds
StartId(existing) == 0

\* index-content.py:149-181: the loop over the chunks lo..hi, entered with the
\* counter at point_id; the counter advances by one per appended entry.  (The
\* range is halved so that the evaluation stays shallow.)
RECURSIVE Collected(_, _, _, _, _)
Collected(raw, lo, hi, language, point_id) ==
    IF lo > hi THEN <<>>
    ELSE IF lo = hi
    THEN IF Survives(raw[lo]) THEN <<Item(raw[lo], language, point_id)>> ELSE <<>>
    ELSE LET mid == (lo + hi) \div 2
             first == Collected(raw, lo, mid, language, point_id)
         IN  first \o Collected(raw, mid + 1, hi, language, point_id + Len(first))

\* Mutant of get_embeddings: a provider error is swallowed into an empty list.
get_embeddings_Swallows(outcome, texts) ==
    IF outcome = "ok"
    THEN [raised |-> FALSE, value |-> [k \in 1..Len(texts) |-> <<"search_document", texts[k]>>]]
    ELSE [raised |-> FALSE, value |-> <<>>]

\* index-content.py:101-108 get_embeddings: the provider call is not wrapped
get_embeddings(outcome, texts) ==
    IF outcome = "ok"
    THEN [raised |-> FALSE, value |-> [k \in 1..Len(texts) |-> <<"search_document", texts[k]>>]]
    ELSE [raised |-> TRUE, value |-> <<>>]

\* index-content.py:200-209: for item, embedding in zip(batch, embeddings)
PointStruct(item, embedding) ==
    [id |-> item.point_id, vector |-> embedding,
     payload |-> [chapter_id |-> item.metadata.chapter_id,
                  section_id |-> item.metadata.section_id,
                  section_title |-> item.metadata.section_title,
                  language |-> item.metadata.language,
                  chunk_index |-> item.metadata.chunk_index,
                  content |-> item.chunk]]
\* Mutant of ZipPoints: each item is paired with the vector of the next item.
ZipPoints_Shifted(batch, embeddings) ==
    [k \in 1..Min(Len(batch), Len(embeddings)) |->
        PointStruct(batch[k], embeddings[(k % Len(embeddings)) + 1])]

ZipPoints(batch, embeddings) ==
    [k \in 1..Min(Len(batch), Len(embeddings)) |-> PointStruct(batch[k], embeddings[k])]

\* Python slice s[lo:lo+size], lo counted from 0
Slice(s, lo, size) == SubSeq(s, lo + 1, Min(lo + size, Len(s)))

\* Mutant of NeedsCreate: the collection is created on every run.
NeedsCreate_Always(collection_name, names) == TRUE

\* index-content.py:139: if collection_name not in collection_names
NeedsCreate(collection_name, names) == collection_name \notin names

\* Mutant of SleepNeeded: the bound of the comparison is off by one.
SleepNeeded_Inclusive(pos, total) == pos + embed_batch_size <= total

\* index-content.py:212: if i + embed_batch_size < len(chunks_to_embed)
SleepNeeded(pos, total) == pos + embed_batch_size < total

\* The index's upsert (index-content.py:219-222): insert, or overwrite by identifier.
Upserted(pts, batch) ==
    LET ids == {batch[k].id : k \in DOMAIN batch}
    IN  [id \in DOMAIN pts \cup ids |->
            IF id \in ids
            THEN batch[CHOOSE k \in DOMAIN batch :
                          /\ batch[k].id = id
                          /\ \A k2 \in DOMAIN batch : batch[k2].id = id => k2 <= k]
            ELSE pts[id]]

\* Mutant of upsert: a failure of the index is swallowed and the loop goes on.
upsert_Swallows(outcome, exists) ==
    IF outcome = "ok" /\ exists
    THEN [raised |-> FALSE, stored |-> TRUE]
    ELSE [raised |-> FALSE, stored |-> FALSE]

\* index-content.py:219-222: qdrant.upsert is not wrapped, an error of the index
\* (a failing call, or a collection that does not exist) propagates.
upsert(outcome, exists) ==
    IF outcome = "ok" /\ exists
    THEN [raised |-> FALSE, stored |-> TRUE]
    ELSE [raised |-> TRUE, stored |-> FALSE]

Ev(op, size, outcome) == [op |-> op, size |-> size, outcome |-> outcome]

\* The event of an embedding call, with the texts submitted (index-content.py:192-197).
EvEmbed(texts, outcome) ==
    [op |-> "embed", size |-> Len(texts), outcome |-> outcome, texts |-> texts]

\* The event of an upsert call, with the identifiers of the points sent
\* (index-content.py:218-222).
EvUpsert(batch, outcome) ==
    [op |-> "upsert", size |-> Len(batch), outcome |-> outcome,
     ids |-> [k \in 1..Len(batch) |-> batch[k].id]]

\* index-content.py:135-136
ListCollections(r, outcome) ==
    /\ UNCHANGED <<qvars, tvars>>
    /\ r \in runs
    /\ ipc[r] = "list"
    /\ trace' = [trace EXCEPT ![r] = Append(@, Ev("get_collections", 0, outcome))]
    /\ IF outcome = "ok"
       THEN /\ collection_names' = [collection_names EXCEPT ![r] = DOMAIN store]
            /\ ipc' = [ipc EXCEPT ![r] = "create"]
       ELSE /\ ipc' = [ipc EXCEPT ![r] = "failed"]
            /\ UNCHANGED collection_names
    /\ UNCHANGED <<runs, store, params, chunks_to_embed, i, points, started,
                   store_before, created, last_upsert, completed>>

\* index-content.py:139-144.  The index refuses to create a collection that exists.
EnsureCollection(r, outcome) ==
    /\ UNCHANGED <<qvars, tvars>>
    /\ r \in runs
    /\ ipc[r] = "create"
    /\ LET name == params[r].collection_name
       IN  IF NeedsCreate(name, collection_names[r])
           THEN LET result == IF outcome # "ok" THEN "error"
                              ELSE IF name \in DOMAIN store THEN "conflict"
                              ELSE "ok"
                IN  /\ trace' = [trace EXCEPT ![r] = Append(@, Ev("create_collection", 0, result))]
                    /\ IF result = "ok"
                       THEN /\ store' = [n \in DOMAIN store \cup {name} |->
                                            IF n = name THEN NoPoints ELSE store[n]]
                            /\ created' = [created EXCEPT ![name] = @ + 1]
                            /\ ipc' = [ipc EXCEPT ![r] = "collect"]
                       ELSE /\ ipc' = [ipc EXCEPT ![r] = "failed"]
                            /\ UNCHANGED <<store, created>>
           ELSE /\ outcome = "ok"
                /\ ipc' = [ipc EXCEPT ![r] = "collect"]
                /\ UNCHANGED <<store, created, trace>>
    /\ UNCHANGED <<runs, params, collection_names, chunks_to_embed, i, points, started,
                   store_before, last_upsert, completed>>

\* index-content.py:147-183
Collect(r) ==
    /\ UNCHANGED <<qvars, tvars>>
    /\ r \in runs
    /\ ipc[r] = "collect"
    /\ chunks_to_embed' = [chunks_to_embed EXCEPT ![r] =
          Collected(RawChunks(params[r].content_dir, params[r].raw), 1, params[r].raw,
                    params[r].language,
                    StartId(DOMAIN PointsIn(store, params[r].collection_name)))]
    /\ points' = [points EXCEPT ![r] = <<>>]
    /\ i' = [i EXCEPT ![r] = 0]
    /\ ipc' = [ipc EXCEPT ![r] = "embed"]
    /\ UNCHANGED <<runs, store, params, collection_names, trace, started,
                   store_before, created, last_upsert, completed>>

\* index-content.py:190-212: one iteration of the embedding loop, up to the sleep
EmbedBatch(r, outcome) ==
    /\ UNCHANGED <<qvars, tvars>>
    /\ r \in runs
    /\ ipc[r] = "embed"
    /\ i[r] < Len(chunks_to_embed[r])
    /\ LET batch == Slice(chunks_to_embed[r], i[r], embed_batch_size)
           texts == [k \in 1..Len(batch) |-> batch[k].chunk]
           embeddings == get_embeddings(outcome, texts)
       IN  /\ trace' = [trace EXCEPT ![r] = Append(@, EvEmbed(texts, outcome))]
           /\ IF embeddings.raised
              THEN /\ ipc' = [ipc EXCEPT ![r] = "failed"]
                   /\ UNCHANGED <<points, i>>
              ELSE /\ points' = [points EXCEPT ![r] = @ \o ZipPoints(batch, embeddings.value)]
                   /\ IF SleepNeeded(i[r], Len(chunks_to_embed[r]))
                      THEN /\ ipc' = [ipc EXCEPT ![r] = "sleep"]
                           /\ UNCHANGED i
                      ELSE /\ i' = [i EXCEPT ![r] = @ + embed_batch_size]
                           /\ UNCHANGED ipc
    /\ UNCHANGED <<runs, store, params, collection_names, chunks_to_embed, started,
                   store_before, created, last_upsert, completed>>

\* index-content.py:213: time.sleep(api_delay), then the next iteration
Sleep(r) ==
    /\ UNCHANGED <<qvars, tvars>>
    /\ r \in runs
    /\ ipc[r] = "sleep"
    /\ trace' = [trace EXCEPT ![r] = Append(@, Ev("sleep", 0, "ok"))]
    /\ i' = [i EXCEPT ![r] = @ + embed_batch_size]
    /\ ipc' = [ipc EXCEPT ![r] = "embed"]
    /\ UNCHANGED <<runs, store, params, collection_names, chunks_to_embed, points, started,
                   store_before, created, last_upsert, completed>>

\* index-content.py:190, 216-217: the embedding loop is exhausted, the upload loop starts
StartUpload(r) ==
    /\ UNCHANGED <<qvars, tvars>>
    /\ r \in runs
    /\ ipc[r] = "embed"
    /\ ~(i[r] < Len(chunks_to_embed[r]))
    /\ i' = [i EXCEPT ![r] = 0]
    /\ ipc' = [ipc EXCEPT ![r] = "upload"]
    /\ UNCHANGED <<runs, store, params, collection_names, chunks_to_embed, points, trace,
                   started, store_before, created, last_upsert, completed>>

\* index-content.py:217-223: one iteration of the upload loop
UpsertBatch(r, outcome) ==
    /\ UNCHANGED <<qvars, tvars>>
    /\ r \in runs
    /\ ipc[r] = "upload"
    /\ i[r] < Len(points[r])
    /\ LET batch == Slice(points[r], i[r], upload_batch_size)
           name == params[r].collection_name
           u == upsert(outcome, name \in DOMAIN store)
       IN  /\ trace' = [trace EXCEPT ![r] =
                           Append(@, EvUpsert(batch, IF u.stored THEN "ok" ELSE "error"))]
           /\ IF u.stored
              THEN /\ store' = [store EXCEPT ![name] = Upserted(@, batch)]
                   /\ last_upsert' = [last_upsert EXCEPT ![name] =
                         [id \in DOMAIN @ \cup {batch[k].id : k \in DOMAIN batch} |->
                             IF \E k \in DOMAIN batch : batch[k].id = id THEN r ELSE @[id]]]
              ELSE UNCHANGED <<store, last_upsert>>
           /\ IF u.raised
              THEN /\ ipc' = [ipc EXCEPT ![r] = "failed"]
                   /\ UNCHANGED i
              ELSE /\ i' = [i EXCEPT ![r] = @ + upload_batch_size]
                   /\ UNCHANGED ipc
    /\ UNCHANGED <<runs, params, collection_names, chunks_to_embed, points, started,
                   store_before, created, completed>>

\* index-content.py:225: the upload loop is exhausted
Complete(r) ==
    /\ UNCHANGED <<qvars, tvars>>
    /\ r \in runs
    /\ ipc[r] = "upload"
    /\ ~(i[r] < Len(points[r]))
    /\ trace' = [trace EXCEPT ![r] = Append(@, Ev("complete", Len(points[r]), "ok"))]
    /\ ipc' = [ipc EXCEPT ![r] = "done"]
    /\ completed' = [completed EXCEPT ![r] =
          Append(@, [collection |-> PointsIn(store, params[r].collection_name),
                     points |-> points[r]])]
    /\ UNCHANGED <<runs, store, params, collection_names, chunks_to_embed, i, points,
                   started, store_before, created, last_upsert>>

\* The operator runs the job again with the same arguments (main, index-content.py:228-246).
Rerun(r) ==
    /\ UNCHANGED <<qvars, tvars>>
    /\ r \in runs
    /\ ipc[r] \in {"done", "failed"}
    /\ started[r] < MaxStarts
    /\ started' = [started EXCEPT ![r] = @ + 1]
    /\ ipc' = [ipc EXCEPT ![r] = "list"]
    /\ collection_names' = [collection_names EXCEPT ![r] = {}]
    /\ chunks_to_embed' = [chunks_to_embed EXCEPT ![r] = <<>>]
    /\ i' = [i EXCEPT ![r] = 0]
    /\ points' = [points EXCEPT ![r] = <<>>]
    /\ trace' = [trace EXCEPT ![r] = <<>>]
    /\ store_before' = [store_before EXCEPT ![r] = store]
    /\ UNCHANGED <<runs, store, params, created, last_upsert, completed>>

RunSteps(r) ==
    \/ \E o \in ProviderOutcomes : ListCollections(r, o)
    \/ \E o \in ProviderOutcomes : EnsureCollection(r, o)
    \/ Collect(r)
    \/ \E o \in ProviderOutcomes : EmbedBatch(r, o)
    \/ Sleep(r)
    \/ StartUpload(r)
    \/ \E o \in ProviderOutcomes : UpsertBatch(r, o)
    \/ Complete(r)

\* Points an earlier job left in a collection.
StalePoint(id) ==
    [id |-> id, vector |-> <<"search_document", <<"old-docs", id>>>>,
     payload |-> [chapter_id |-> "intro", section_id |-> "intro", section_title |-> "Introduction",
                  language |-> "en", chunk_index |-> 0, content |-> <<"old-docs", id>>]]

InitialStores ==
    { <<>>,
      [n \in {"textbook_ur"} |-> NoPoints],
      [n \in {"textbook_en"} |-> NoPoints],
      [n \in {"textbook_en"} |-> [id \in {0, 150} |-> StalePoint(id)]] }

RunIdle(rs) ==
    /\ runs = rs
    /\ ipc = [r \in rs |-> "list"]
    /\ collection_names = [r \in rs |-> {}]
    /\ chunks_to_embed = [r \in rs |-> <<>>]
    /\ i = [r \in rs |-> 0]
    /\ points = [r \in rs |-> <<>>]
    /\ trace = [r \in rs |-> <<>>]
    /\ started = [r \in rs |-> 1]
    /\ store_before = [r \in rs |-> store]
    /\ created = [n \in CollectionNames |-> 0]
    /\ last_upsert = [n \in CollectionNames |-> NoPoints]
    /\ completed = [r \in rs |-> <<>>]

\* One job, run up to MaxStarts times in sequence.
IndexInit ==
    /\ QueryInit
    /\ TextIdle
    /\ store \in InitialStores
    /\ \E m \in 0..MaxRaw :
          params = [r \in {1} |-> [collection_name |-> "textbook_en", language |-> "en",
                                   content_dir |-> "docs", raw |-> m]]
    /\ RunIdle({1})

IndexNext == \E r \in {1} : RunSteps(r) \/ Rerun(r)

SpecIndex == IndexInit /\ [][IndexNext]_vars

\* Two jobs against the same collection at the same time, on different content.
ConcSizes == {0, 1, embed_batch_size + 1, MaxRaw}
ConcInit ==
    /\ QueryInit
    /\ TextIdle
    /\ store \in {<<>>, [n \in {"textbook_en"} |-> NoPoints]}
    /\ \E m1 \in ConcSizes, m2 \in ConcSizes :
          params = [r \in {1, 2} |->
                       [collection_name |-> "textbook_en", language |-> "en",
                        content_dir |-> IF r = 1 THEN "docs" ELSE "docs-next",
                        raw |-> IF r = 1 THEN m1 ELSE m2]]
    /\ RunIdle({1, 2})

ConcNext == \E r \in {1, 2} : RunSteps(r)

SpecConc == ConcInit /\ [][ConcNext]_vars

(***************************************************************************)
(* Properties of the indexing job.                                         *)
(***************************************************************************)
OpsAt(r, op) == {j \in DOMAIN trace[r] : trace[r][j].op = op}
\* How many events of kind op the run's trace holds up to position j.
Ordinal(r, op, j) == Cardinality({j2 \in OpsAt(r, op) : j2 <= j})
SurvivingChunks(r) == Len(chunks_to_embed[r])
Batches(r) == CeilDiv(SurvivingChunks(r), embed_batch_size)
EmbeddingOver(r) == ipc[r] \in {"upload", "done"} \/ OpsAt(r, "upsert") # {}

\* C7: with n surviving chunks and batch size 20 exactly ceil(n/20) embedding
\* calls are issued, each with at most 20 texts (the k-th carries
\* min(20, n - 20(k-1))); a delay follows every embedding call except the last
\* one and none follows the final batch.  A run aborted by a failing call has
\* issued fewer calls, and no delay follows the failing one.
C7_BatchesAndDelays ==
    \A r \in runs :
        /\ Cardinality(OpsAt(r, "embed")) <= Batches(r)
        /\ \A j \in OpsAt(r, "embed") :
              /\ trace[r][j].size >= 1
              /\ trace[r][j].size <= embed_batch_size
              /\ trace[r][j].size =
                    Min(embed_batch_size,
                        SurvivingChunks(r) - embed_batch_size * (Ordinal(r, "embed", j) - 1))
              /\ (trace[r][j].outcome = "ok" /\ Ordinal(r, "embed", j) < Batches(r)) =>
                    IF j = Len(trace[r]) THEN ipc[r] = "sleep"
                    ELSE trace[r][j + 1].op = "sleep"
        /\ \A j \in OpsAt(r, "sleep") :
              /\ j > 1
              /\ trace[r][j - 1].op = "embed"
              /\ trace[r][j - 1].outcome = "ok"
              /\ Ordinal(r, "embed", j) < Batches(r)
        /\ EmbeddingOver(r) =>
              /\ Cardinality(OpsAt(r, "embed")) = Batches(r)
              /\ Cardinality(OpsAt(r, "sleep")) = IF Batches(r) = 0 THEN 0 ELSE Batches(r) - 1

\* A finished run over 45 surviving chunks: three calls, two delays.
C7_Witness ==
    /\ ipc[1] = "done"
    /\ SurvivingChunks(1) = 45
    /\ Cardinality(OpsAt(1, "embed")) = 3
    /\ Cardinality(OpsAt(1, "sleep")) = 2
    /\ trace[1][Len(trace[1]) - 2].op = "embed"

\* C8: no upsert is issued before every embedding batch has completed
\* successfully; if an embedding call fails the run aborts with zero upserts
\* and the points stored in the collection are those stored before the run.
C8_EmbedAllThenUpload ==
    \A r \in runs :
        /\ \A j \in OpsAt(r, "upsert") :
              /\ Ordinal(r, "embed", j) = Batches(r)
              /\ \A j2 \in OpsAt(r, "embed") : j2 < j /\ trace[r][j2].outcome = "ok"
        /\ (\E j \in OpsAt(r, "embed") : trace[r][j].outcome = "error") =>
              /\ ipc[r] = "failed"
              /\ OpsAt(r, "upsert") = {}
              /\ PointsIn(store, params[r].collection_name)
                    = PointsIn(store_before[r], params[r].collection_name)

\* The second embedding batch failed, with points of the first batch already
\* built and stale points in the collection.
C8_Witness ==
    /\ ipc[1] = "failed"
    /\ Len(points[1]) = embed_batch_size
    /\ Cardinality(OpsAt(1, "embed")) = 2
    /\ DOMAIN PointsIn(store, "textbook_en") = {0, 150}

SetupDone(r) == ipc[r] \in {"collect", "embed", "sleep", "upload", "done"}

\* C9: the collection is created only when its name is absent from the index:
\* running the setup step twice in sequence with the same parameters leaves
\* the one collection and raises no already-exists error, and an existing
\* collection is left unchanged.
C9_SetupIdempotent ==
    \A r \in runs :
        LET name == params[r].collection_name
        IN  /\ \A j \in OpsAt(r, "create_collection") :
                  /\ trace[r][j].outcome # "conflict"
                  /\ name \notin DOMAIN store_before[r]
            /\ created[name] <= 1
            /\ SetupDone(r) =>
                  /\ name \in DOMAIN store
                  /\ DOMAIN store = DOMAIN store_before[r] \cup {name}
            /\ (ipc[r] = "collect" /\ name \in DOMAIN store_before[r]) =>
                  store = store_before[r]

\* The second run of the job found the collection the first run created.
C9_Witness ==
    /\ started[1] = 2
    /\ ipc[1] = "collect"
    /\ created["textbook_en"] = 1
    /\ OpsAt(1, "create_collection") = {}
    /\ "textbook_en" \in collection_names[1]

NoProviderFailure == \A r \in runs : \A j \in DOMAIN trace[r] : trace[r][j].outcome # "error"

\* The point run r built for identifier id.
PointOf(r, id) == points[r][CHOOSE k \in DOMAIN points[r] : points[r][k].id = id]

LastWriteWins ==
    (\A r \in runs : ipc[r] = "done") =>
        \A name \in DOMAIN store : \A id \in DOMAIN last_upsert[name] :
            store[name][id] = PointOf(last_upsert[name][id], id)

\* C10: two indexing runs against the same collection at the same time are
\* safe without locks: under every interleaving of their steps both complete
\* without error, and afterwards each point identifier holds the point
\* written by the last upsert for that identifier.
C10_ConcurrentRunsSafe ==
    /\ NoProviderFailure => \A r \in runs : ipc[r] # "failed"
    /\ LastWriteWins

\* The chunks of the run's content directory that reach the minimum length,
\* in processing order.
LongEnough(r) ==
    SelectSeq(RawChunks(params[r].content_dir, params[r].raw),
              LAMBDA c : c.len >= min_chunk_length)

Collecting(r) == ipc[r] \in {"list", "create", "collect"}

\* C19: within one indexing run, point identifiers are assigned only to
\* surviving chunks, are pairwise distinct, and strictly increase in
\* processing order (files, then sections, then chunks): the k-th surviving
\* chunk gets identifier k-1, so the identifiers of a run are exactly 0..n-1
\* with no gaps for the dropped chunks.
C19_PointIdentifiers ==
    \A r \in runs :
        /\ \A k \in DOMAIN chunks_to_embed[r] : chunks_to_embed[r][k].point_id = k - 1
        /\ \A k \in DOMAIN points[r] :
              /\ points[r][k].id = k - 1
              /\ points[r][k].payload.content = chunks_to_embed[r][k].chunk
        /\ (~Collecting(r) /\ ipc[r] # "failed") =>
              LET long == LongEnough(r)
              IN  /\ Len(chunks_to_embed[r]) = Len(long)
                  /\ \A k \in DOMAIN chunks_to_embed[r] :
                        /\ chunks_to_embed[r][k].chunk = long[k].chunk
                        /\ chunks_to_embed[r][k].metadata.section_id = long[k].header_id

\* A finished run over 112 chunks of two files, 11 of them dropped: the last
\* chunk is the 101st survivor and holds identifier 100.
C19_Witness ==
    /\ ipc[1] = "done"
    /\ params[1].raw = 112
    /\ Len(chunks_to_embed[1]) = 101
    /\ chunks_to_embed[1][101].point_id = 100
    /\ chunks_to_embed[1][101].chunk = <<"docs", 112>>
    /\ chunks_to_embed[1][1].metadata.chapter_id = "intro"
    /\ chunks_to_embed[1][101].metadata.chapter_id = "02-ros2"

\* The texts the run has submitted to the embedding provider, in order.
Submitted(r) ==
    Flatten([k \in 1..Cardinality(OpsAt(r, "embed")) |->
                trace[r][KthSmallest(OpsAt(r, "embed"), k)].texts])

\* C20: no chunk whose trimmed length is below the minimum viable length (50
\* characters) is ever submitted to the embedding provider or upserted into
\* the collection, and every chunk at or above that length is submitted
\* exactly once (by a run whose embedding calls all succeed; a run that a
\* failing call aborts has submitted the chunks up to that call's batch,
\* once each).
C20_ShortChunksNeverIndexed ==
    \A r \in runs :
        LET long == LongEnough(r)
            texts == [k \in DOMAIN long |-> long[k].chunk]
            submitted == Submitted(r)
            name == params[r].collection_name
        IN  /\ Len(submitted) <= Len(texts)
            /\ submitted = SubSeq(texts, 1, Len(submitted))
            /\ EmbeddingOver(r) => submitted = texts
            /\ \A k \in DOMAIN points[r] : points[r][k].payload.content = texts[k]
            /\ \A id \in DOMAIN last_upsert[name] :
                  store[name][id].payload.content \in {texts[k] : k \in DOMAIN texts}

\* A finished run over 13 chunks: the 3rd and the 13th are fragments, the 7th
\* is exactly 50 characters long; eleven texts were submitted and upserted.
C20_Witness ==
    /\ ipc[1] = "done"
    /\ params[1].raw = 13
    /\ RawLength(3) < min_chunk_length
    /\ RawLength(7) = min_chunk_length
    /\ Submitted(1) = <<<<"docs", 1>>, <<"docs", 2>>, <<"docs", 4>>, <<"docs", 5>>,
                        <<"docs", 6>>, <<"docs", 7>>, <<"docs", 8>>, <<"docs", 9>>,
                        <<"docs", 10>>, <<"docs", 11>>, <<"docs", 12>>>>
    /\ Cardinality(DOMAIN store["textbook_en"] \ {150}) = 11

\* The points the run has upserted into the collection so far.
Uploaded(r) ==
    LET ok == Cardinality({j \in OpsAt(r, "upsert") : trace[r][j].outcome = "ok"})
    IN  SubSeq(points[r], 1, Min(Len(points[r]), upload_batch_size * ok))

\* The chunks j1 and j2 of the chunker's output come from the same section
\* of the same file.
SameSection(raw, j1, j2) ==
    raw[j1].stem = raw[j2].stem /\ raw[j1].header_id = raw[j2].header_id

\* How many chunks of its section come before the j-th chunk, and after it
\* (the chunks of a section follow each other in the chunker's output).
RECURSIVE Before(_, _)
Before(raw, j) ==
    IF (j - 1) \in DOMAIN raw /\ SameSection(raw, j - 1, j) THEN 1 + Before(raw, j - 1) ELSE 0
RECURSIVE After(_, _)
After(raw, j) ==
    IF (j + 1) \in DOMAIN raw /\ SameSection(raw, j, j + 1) THEN 1 + After(raw, j + 1) ELSE 0

\* C28: the chunk_index stored in a point's payload is the chunk's zero-based
\* position in the chunker's output for its section, counted before short
\* chunks are dropped: within one section the chunk_index values of the
\* indexed points are strictly increasing in point-identifier order and each
\* is smaller than the number of chunks of that section.  (The points follow
\* each other in identifier order and in the order of the chunker's output,
\* so it is enough to compare each point with the next.)
C28_ChunkIndex ==
    \A r \in runs :
        LET raw == RawChunks(params[r].content_dir, params[r].raw)
            pts == Uploaded(r)
        IN  \A k \in DOMAIN pts :
                LET j == pts[k].payload.content[2]
                    chunk_index == pts[k].payload.chunk_index
                IN  /\ raw[j].chunk = pts[k].payload.content
                    /\ raw[j].header_id = pts[k].payload.section_id
                    /\ chunk_index = Before(raw, j)
                    /\ chunk_index < Before(raw, j) + 1 + After(raw, j)
                    /\ k < Len(pts) =>
                          LET j2 == pts[k + 1].payload.content[2]
                          IN  /\ pts[k].id < pts[k + 1].id
                              /\ j < j2
                              /\ SameSection(raw, j, j2) =>
                                    chunk_index < pts[k + 1].payload.chunk_index

\* A finished run over 16 chunks: the first chunk of the fourth section (the
\* 13th) was dropped, so the first point of that section holds chunk_index 1
\* and the section's points hold 1, 2, 3.
C28_Witness ==
    /\ ipc[1] = "done"
    /\ params[1].raw = 16
    /\ ~Survives(RawChunks("docs", 16)[13])
    /\ Len(points[1]) = 14
    /\ points[1][12].payload.section_id = <<"section", 3>>
    /\ points[1][11].payload.section_id # <<"section", 3>>
    /\ points[1][12].payload.chunk_index = 1
    /\ points[1][14].payload.chunk_index = 3

\* The identifiers the run has sent in successful upsert calls, in order.
UpsertedIds(r) ==
    LET ok == {j \in OpsAt(r, "upsert") : trace[r][j].outcome = "ok"}
    IN  Flatten([k \in 1..Cardinality(ok) |-> trace[r][KthSmallest(ok, k)].ids])

\* C29: when all embedding batches succeed and the provider returns one
\* vector per submitted text, every surviving chunk yields exactly one
\* point, holding that chunk's own identifier, payload and the vector at the
\* same batch position, and each point is upserted exactly once, in
\* point-identifier order, in upload batches of at most 100 points; the
\* number of points uploaded equals the number of surviving chunks (for a
\* run that completes; a run that a failing upsert aborts has uploaded the
\* points of the batches before it, once each).
C29_PointsAndUploads ==
    \A r \in runs :
        LET items == chunks_to_embed[r]
            pts == points[r]
            n == Len(items)
            sent == UpsertedIds(r)
            name == params[r].collection_name
        IN  /\ Len(pts) <= n
            /\ \A k \in DOMAIN pts :
                  /\ pts[k].id = items[k].point_id
                  /\ pts[k].vector = <<"search_document", items[k].chunk>>
                  /\ pts[k].payload.content = items[k].chunk
                  /\ pts[k].payload.chapter_id = items[k].metadata.chapter_id
                  /\ pts[k].payload.section_id = items[k].metadata.section_id
                  /\ pts[k].payload.section_title = items[k].metadata.section_title
                  /\ pts[k].payload.language = items[k].metadata.language
                  /\ pts[k].payload.chunk_index = items[k].metadata.chunk_index
            /\ EmbeddingOver(r) => Len(pts) = n
            /\ \A j \in OpsAt(r, "upsert") :
                  /\ trace[r][j].size >= 1
                  /\ trace[r][j].size <= upload_batch_size
            /\ Len(sent) <= n
            /\ \A k \in DOMAIN sent :
                  /\ sent[k] = k - 1
                  /\ store[name][sent[k]] = pts[k]
            /\ ipc[r] = "done" =>
                  /\ Len(sent) = n
                  /\ Cardinality(OpsAt(r, "upsert")) = CeilDiv(n, upload_batch_size)

\* A finished run with 101 surviving chunks: 101 points, uploaded in a batch
\* of 100 and a batch of one, the last point holding the vector of the last
\* chunk.
C29_Witness ==
    /\ ipc[1] = "done"
    /\ Len(chunks_to_embed[1]) = 101
    /\ Len(points[1]) = 101
    /\ Cardinality(OpsAt(1, "upsert")) = 2
    /\ trace[1][Len(trace[1]) - 1].size = 1
    /\ trace[1][Len(trace[1]) - 1].ids = <<100>>
    /\ store["textbook_en"][100].vector = <<"search_document", <<"docs", 112>>>>

\* C30: the chapter identifier stored with every point indexed from a file
\* is that file's name stem, so the citation later built for such a chunk
\* carries the same stem as chapter_id and its deep link is
\* /{language}/docs/{stem}#{section_id} (a chunk from chapter-02-ros2.md
\* cites /en/docs/chapter-02-ros2#<section_id>).
C30_ChapterIdIsStem ==
    \A r \in runs :
        LET raw == RawChunks(params[r].content_dir, params[r].raw)
            pts == Uploaded(r)
        IN  \A k \in DOMAIN pts :
                LET payload == pts[k].payload
                    stem == raw[payload.content[2]].stem
                    citation == SourceReference(payload, payload.language)
                IN  /\ payload.chapter_id = stem
                    /\ citation.chapter_id = stem
                    /\ citation.url = <<"/", payload.language, "/docs/", stem,
                                        "#", payload.section_id>>

\* index-content.py:249-250: main() is called bare, so an exception that leaves
\* index_content ends the process with a traceback and status 1; a run that
\* returns ends it with status 0.
ExitStatus(r) == IF ipc[r] = "failed" THEN 1 ELSE 0

UploadBatches(r) == CeilDiv(Len(points[r]), upload_batch_size)

\* C22: an upsert failure during indexing is fatal and surfaced: the run
\* stops at the first failing upload batch with the error propagating to the
\* operator (non-zero exit), no later upload batch is attempted, and the
\* completion message is never logged for that run.
C22_UpsertFailureFatal ==
    \A r \in runs :
        /\ \A j \in OpsAt(r, "upsert") :
              trace[r][j].outcome = "error" =>
                  /\ j = Len(trace[r])
                  /\ ipc[r] = "failed"
                  /\ ExitStatus(r) # 0
        /\ \A j \in OpsAt(r, "complete") :
              /\ \A j2 \in OpsAt(r, "upsert") : trace[r][j2].outcome = "ok"
              /\ Cardinality(OpsAt(r, "upsert")) = UploadBatches(r)

\* The first of two upload batches failed: the second one was not attempted
\* and the collection is as it was before the run.
C22_Witness ==
    /\ ipc[1] = "failed"
    /\ UploadBatches(1) = 2
    /\ Cardinality(OpsAt(1, "upsert")) = 1
    /\ trace[1][Len(trace[1])].op = "upsert"
    /\ trace[1][Len(trace[1])].size = upload_batch_size
    /\ trace[1][Len(trace[1])].outcome = "error"
    /\ "textbook_en" \in DOMAIN store
    /\ store = store_before[1]

\* C21: re-running indexing against an unchanged corpus with unchanged file
\* enumeration order (and a deterministic embedding provider) is idempotent:
\* the second run assigns the same point identifier to the same chunk and
\* payload, so the collection's contents after the second run equal its
\* contents after the first.
C21_RerunIdempotent ==
    \A r \in runs : \A k \in DOMAIN completed[r] :
        k > 1 =>
            /\ completed[r][k].points = completed[r][k - 1].points
            /\ completed[r][k].collection = completed[r][k - 1].collection

\* The job completed twice over 112 chunks, in a collection that held two
\* stale points before the first run: 101 points of the job and the stale
\* point 150 after each run.
C21_Witness ==
    /\ Len(completed[1]) = 2
    /\ Len(completed[1][2].points) = 101
    /\ DOMAIN completed[1][2].collection = 0..100 \cup {150}
    /\ completed[1][2].collection[0] = completed[1][2].points[1]
    /\ store["textbook_en"] = completed[1][1].collection

(***************************************************************************)
(* The text functions: extract_sections and chunk_text of index-content.py *)
(* and _build_context of llm.py.  A text is a sequence of characters.      *)
(***************************************************************************)
MaxContent == 6        \* characters of a markdown document
MaxText == 6           \* characters of a section text

chunk_max_length == 2000    \* index-content.py:74: max_length: int = 2000

\* The characters str.strip() removes and \s matches.
Whitespace == {" ", "\n", "\t", "\r"}

\* str.strip()
Strip(s) ==
    LET kept == {k \in DOMAIN s : s[k] \notin Whitespace}
    IN  IF kept = {} THEN <<>>
        ELSE SubSeq(s, CHOOSE k \in kept : \A k2 \in kept : k <= k2,
                       CHOOSE k \in kept : \A k2 \in kept : k2 <= k)

\* The first position at which sep occurs in s, 0 if it does not.
Find(s, sep) ==
    LET at == {p \in 1..(Len(s) - Len(sep) + 1) : SubSeq(s, p, p + Len(sep) - 1) = sep}
    IN  IF at = {} THEN 0 ELSE CHOOSE p \in at : \A p2 \in at : p <= p2

\* str.split(sep): the pieces between the occurrences of sep, found left to right
RECURSIVE Split(_, _)
Split(s, sep) ==
    LET p == Find(s, sep)
    IN  IF p = 0 THEN <<s>>
        ELSE <<SubSeq(s, 1, p - 1)>> \o Split(SubSeq(s, p + Len(sep), Len(s)), sep)

\* sep.join(parts)
RECURSIVE Join(_, _)
Join(parts, sep) ==
    IF Len(parts) = 0 THEN <<>>
    ELSE IF Len(parts) = 1 THEN parts[1]
    ELSE parts[1] \o sep \o Join(Tail(parts), sep)

Newline == <<"\n">>               \* '\n'
ParagraphSep == <<"\n", "\n">>    \* '\n\n'

\* How many "#" a line starts with.
LeadingHashes(line) ==
    LET others == {k \in DOMAIN line : line[k] # "#"}
    IN  IF others = {} THEN Len(line)
        ELSE (CHOOSE k \in others : \A k2 \in others : k <= k2) - 1

\* index-content.py:41: re.match(r'^(#{1,6})\s+(.+)$', line).  One to six "#",
\* then whitespace, then at least one more character; \s+ takes all the
\* whitespace it can and gives one character back when nothing else is left
\* for (.+).
header_match(line) ==
    LET h == LeadingHashes(line)
        spaces == {k \in (h + 1)..Len(line) :
                      \A k2 \in (h + 1)..k : line[k2] \in Whitespace}
        w == Cardinality(spaces)
    IN  IF h >= 1 /\ h <= 6 /\ w >= 1 /\ Len(line) >= h + 2
        THEN [matched |-> TRUE,
              group1 |-> SubSeq(line, 1, h),
              group2 |-> IF h + w < Len(line)
                         THEN SubSeq(line, h + w + 1, Len(line))
                         ELSE SubSeq(line, Len(line), Len(line))]
        ELSE [matched |-> FALSE, group1 |-> <<>>, group2 |-> <<>>]

\* str.lower(), on the letters of the model
Lower(c) ==
    CASE c = "A" -> "a"
      [] c = "B" -> "b"
      [] OTHER -> c

\* index-content.py:53: title.lower().replace(' ', '-').replace('/', '-')
\*                           .replace('(', '').replace(')', '')
HeaderId(title) ==
    LET lowered == [k \in DOMAIN title |-> Lower(title[k])]
        hyphened == [k \in DOMAIN title |->
                        IF lowered[k] \in {" ", "/"} THEN "-" ELSE lowered[k]]
    IN  SelectSeq(hyphened, LAMBDA c : c \notin {"(", ")"})

\* Mutant of IntroductionSection: the implicit section is given level 1.
IntroductionSection_Level1 ==
    [title |-> <<"I", "n", "t", "r", "o", "d", "u", "c", "t", "i", "o", "n">>,
     content |-> <<>>, level |-> 1, header_id |-> <<"i", "n", "t", "r", "o">>]

\* index-content.py:37: the section open before the first heading
IntroductionSection ==
    [title |-> <<"I", "n", "t", "r", "o", "d", "u", "c", "t", "i", "o", "n">>,
     content |-> <<>>, level |-> 0, header_id |-> <<"i", "n", "t", "r", "o">>]

\* index-content.py:51-60: the section a heading opens
StartSection(m) ==
    [title |-> Strip(m.group2),
     content |-> <<>>,
     level |-> Len(m.group1),
     header_id |-> HeaderId(Strip(m.group2))]

\* Mutant of SaveSection: a section of blank lines only is not kept.
SaveSection_SkipsBlank(sections, current_section) ==
    IF \E k \in DOMAIN current_section.content : current_section.content[k] # <<>>
    THEN Append(sections, [current_section EXCEPT !.content = Join(@, Newline)])
    ELSE sections

\* index-content.py:44-48 and 65-69: if current_section['content']: the test is
\* on the list of lines, so a list holding one empty line passes it.
SaveSection(sections, current_section) ==
    IF Len(current_section.content) > 0
    THEN Append(sections, [current_section EXCEPT !.content = Join(@, Newline)])
    ELSE sections

\* index-content.py:39-69: the loop over the lines from the k-th on, and the
\* last section
RECURSIVE ScanLines(_, _, _, _)
ScanLines(lines, k, sections, current_section) ==
    IF k > Len(lines) THEN SaveSection(sections, current_section)
    ELSE LET m == header_match(lines[k])
         IN  IF m.matched
             THEN ScanLines(lines, k + 1, SaveSection(sections, current_section),
                            StartSection(m))
             ELSE ScanLines(lines, k + 1, sections,
                            [current_section EXCEPT !.content = Append(@, lines[k])])

\* index-content.py:29-71
extract_sections(content) ==
    ScanLines(Split(content, Newline), 1, <<>>, IntroductionSection)

\* Mutant of Overflows: the separator is left out of the sum.
Overflows_NoSeparator(current_chunk, para, max_length) ==
    Len(current_chunk) + Len(para) > max_length

\* index-content.py:85: if len(current_chunk) + len(para) + 2 > max_length
Overflows(current_chunk, para, max_length) ==
    Len(current_chunk) + Len(para) + 2 > max_length

\* Mutant of Appended: paragraphs are joined with one newline.
Appended_SingleNewline(current_chunk, para) ==
    IF Len(current_chunk) > 0 THEN current_chunk \o Newline \o para ELSE para

\* index-content.py:90-93
Appended(current_chunk, para) ==
    IF Len(current_chunk) > 0 THEN current_chunk \o ParagraphSep \o para ELSE para

\* Mutant of Flushed: the chunk replaces the chunks emitted before it.
Flushed_KeepsLast(chunks, current_chunk) ==
    IF Len(current_chunk) > 0 THEN <<Strip(current_chunk)>> ELSE chunks

\* index-content.py:86-87 and 95-96: if current_chunk: chunks.append(current_chunk.strip())
Flushed(chunks, current_chunk) ==
    IF Len(current_chunk) > 0 THEN Append(chunks, Strip(current_chunk)) ELSE chunks

\* index-content.py:84-96: the loop over the paragraphs from the k-th on, and
\* the last chunk
RECURSIVE ChunkLoop(_, _, _, _, _)
ChunkLoop(paragraphs, k, chunks, current_chunk, max_length) ==
    IF k > Len(paragraphs) THEN Flushed(chunks, current_chunk)
    ELSE LET para == paragraphs[k]
         IN  IF Overflows(current_chunk, para, max_length)
             THEN ChunkLoop(paragraphs, k + 1, Flushed(chunks, current_chunk), para,
                            max_length)
             ELSE ChunkLoop(paragraphs, k + 1, chunks, Appended(current_chunk, para),
                            max_length)

\* index-content.py:74-98
chunk_text(text, max_length) ==
    ChunkLoop(Split(text, ParagraphSep), 1, <<>>, <<>>, max_length)

(***************************************************************************)
(* The context block of the synthesizer: _build_context of llm.py.         *)
(***************************************************************************)
MaxParts == 3          \* chunks handed to _build_context

Delimiter == <<"\n", "\n", "-", "-", "-", "\n", "\n">>    \* llm.py:79: "\n\n---\n\n"

\* str(n) for a number that is not negative
DigitChars == <<"0", "1", "2", "3", "4", "5", "6", "7", "8", "9">>
RECURSIVE Str(_)
Str(n) == IF n < 10 THEN <<DigitChars[n + 1]>> ELSE Str(n \div 10) \o <<DigitChars[(n % 10) + 1]>>

\* Mutant of SectionNumber: the parts are numbered from 0.
SectionNumber_ZeroBased(idx) == idx

\* llm.py:77: {i+1}, for the index enumerate() gives the chunk
SectionNumber(idx) == idx + 1

\* llm.py:75-77: f"[Section {i+1}: {section_title}]\n{content}"
ContextPart(idx, chunk) ==
    <<"[", "S", "e", "c", "t", "i", "o", "n", " ">> \o Str(SectionNumber(idx))
        \o <<":", " ">> \o chunk.section_title \o <<"]", "\n">> \o chunk.content

\* llm.py:70-79
_build_context(chunks) ==
    Join([k \in 1..Len(chunks) |-> ContextPart(k - 1, chunks[k])], Delimiter)

(***************************************************************************)
(* The inputs the functions are called on.                                 *)
(***************************************************************************)
Rep(c, n) == [k \in 1..n |-> c]

MdChars == {"#", " ", "a", "\n"}
TextChars == {"a", "b", " ", "\n"}

\* Longer documents: seven and six "#", a tab after the "#", a heading with
\* capitals, brackets and a slash, a carriage return before the newline.
SampleDocuments ==
    { Rep("#", 7) \o <<" ", "a">>,
      Rep("#", 6) \o <<" ", "a", "\n", "a">>,
      <<"#", "\t", "a", "\n", "b">>,
      <<"a", "\n", "#", " ", "A", " ", "(", "B", "/", "a", ")", "\n", "a", "b", "\n", "\n",
        "#", "#", " ", "b", "\n">>,
      <<"a", "\r", "\n", "#", " ", "a", "\r", "\n", "b", "\r", "\n">> }

Documents == SeqsUpTo(MdChars, MaxContent) \cup SampleDocuments
Texts == SeqsUpTo(TextChars, MaxText)
MaxLengths == {2, 3, 4, 5, chunk_max_length}

\* Chunks as the handlers hand them to the synthesizer: a title, and a text
\* that may be empty, hold a horizontal rule between two paragraphs, or start
\* or end with a line of three hyphens.
ContextTitles == {<<"A">>, <<"B", "-", "c">>}
ContextContents ==
    { <<"a">>, <<>>,
      <<"a", "\n", "\n", "-", "-", "-", "\n", "\n", "b">>,
      <<"\n", "-", "-", "-">>,
      <<"-", "-", "-">> }
ContextChunks == [section_title : ContextTitles, content : ContextContents]
ContextChunkLists == SeqsUpTo(ContextChunks, MaxParts)

Returned(fn) == fn_call.fn = fn /\ fn_return.done

\* sections = extract_sections(content, str(md_file))
ExtractSections ==
    /\ UNCHANGED <<qvars, ivars>>
    /\ fn_call.fn = "extract_sections"
    /\ ~fn_return.done
    /\ fn_return' = [done |-> TRUE, value |-> extract_sections(fn_call.content)]
    /\ UNCHANGED fn_call

\* chunks = chunk_text(text, max_length)
ChunkText ==
    /\ UNCHANGED <<qvars, ivars>>
    /\ fn_call.fn = "chunk_text"
    /\ ~fn_return.done
    /\ fn_return' = [done |-> TRUE,
                     value |-> chunk_text(fn_call.text, fn_call.max_length)]
    /\ UNCHANGED fn_call

\* context_text = self._build_context(context_chunks)
BuildContext ==
    /\ UNCHANGED <<qvars, ivars>>
    /\ fn_call.fn = "_build_context"
    /\ ~fn_return.done
    /\ fn_return' = [done |-> TRUE, value |-> _build_context(fn_call.chunks)]
    /\ UNCHANGED fn_call

TextInit ==
    /\ QueryInit
    /\ IndexIdle
    /\ fn_call \in {[fn |-> "extract_sections", content |-> c] : c \in Documents}
                   \cup {[fn |-> "chunk_text", text |-> t, max_length |-> L] :
                            t \in Texts, L \in MaxLengths}
                   \cup {[fn |-> "_build_context", chunks |-> cs] : cs \in ContextChunkLists}
    /\ fn_return = NotReturned

TextNext == ExtractSections \/ ChunkText \/ BuildContext

SpecText == TextInit /\ [][TextNext]_vars

(***************************************************************************)
(* Properties of the segmenter.                                            *)
(***************************************************************************)
\* A heading line: one to six "#", then whitespace, then at least one more
\* character.
HeadingLine(line) ==
    \E h \in 1..6 :
        /\ Len(line) >= h + 2
        /\ \A k \in 1..h : line[k] = "#"
        /\ line[h + 1] \in Whitespace

HeadingPositions(lines) == {p \in DOMAIN lines : HeadingLine(lines[p])}

\* The lines between position p (a heading, or 0 for the start of the
\* document) and the next heading.
BodyAfter(lines, p) ==
    LET later == {p2 \in HeadingPositions(lines) : p2 > p}
    IN  SubSeq(lines, p + 1,
               IF later = {} THEN Len(lines)
               ELSE (CHOOSE p2 \in later : \A p3 \in later : p2 <= p3) - 1)

\* C13: for any markdown input, the segmenter's emitted sections are in
\* document order and the concatenation of their body lines, in order, equals
\* the sequence of all non-heading lines of the input: every non-heading line
\* belongs to exactly one emitted section (no gaps, no overlaps) and no
\* heading line appears in any body.  Section k is the k-th stretch of the
\* document (the start, or a heading) that is followed by at least one
\* non-heading line, with that stretch's lines as body and its heading's
\* level.
C13_SegmenterCoversInput ==
    Returned("extract_sections") =>
        LET lines == Split(fn_call.content, Newline)
            sections == fn_return.value
            bodies == [k \in DOMAIN sections |-> Split(sections[k].content, Newline)]
            starts == {p \in {0} \cup HeadingPositions(lines) : Len(BodyAfter(lines, p)) > 0}
        IN  /\ Flatten(bodies) = SelectSeq(lines, LAMBDA l : ~HeadingLine(l))
            /\ \A k \in DOMAIN bodies : \A j \in DOMAIN bodies[k] : ~HeadingLine(bodies[k][j])
            /\ Len(sections) = Cardinality(starts)
            /\ \A k \in DOMAIN sections :
                  LET p == KthSmallest(starts, k)
                  IN  /\ bodies[k] = BodyAfter(lines, p)
                      /\ sections[k].level = IF p = 0 THEN 0 ELSE LeadingHashes(lines[p])

\* Text before the first heading and a heading followed by a blank line: two
\* sections, the implicit one first.
C13_Witness ==
    /\ Returned("extract_sections")
    /\ Len(fn_return.value) = 2
    /\ fn_return.value[1].level = 0
    /\ fn_return.value[2].level = 2
    /\ fn_return.value[2].content = <<>>

\* C14: the segmenter applied to empty input yields zero sections.
C14_EmptyInputNoSections ==
    (Returned("extract_sections") /\ fn_call.content = <<>>) => fn_return.value = <<>>

\* C15: for every input that contains no heading line, the segmenter yields
\* exactly one section, titled "Introduction" with level 0, whose body is the
\* whole document.
C15_NoHeadingOneSection ==
    (Returned("extract_sections")
     /\ HeadingPositions(Split(fn_call.content, Newline)) = {}) =>
        /\ Len(fn_return.value) = 1
        /\ fn_return.value[1].title =
              <<"I", "n", "t", "r", "o", "d", "u", "c", "t", "i", "o", "n">>
        /\ fn_return.value[1].level = 0
        /\ fn_return.value[1].content = fn_call.content

\* A document of several lines, one of them starting with "#" without being
\* a heading.
C15_Witness ==
    /\ Returned("extract_sections")
    /\ HeadingPositions(Split(fn_call.content, Newline)) = {}
    /\ Len(Split(fn_call.content, Newline)) >= 2
    /\ \E k \in DOMAIN fn_call.content : fn_call.content[k] = "#"
    /\ Len(fn_return.value) = 1

\* C24: the segmenter emits a section only if it accumulated body text: a
\* section whose body is empty is never emitted, in particular an empty
\* leading section before the first heading (including one made only of
\* blank lines) and a heading immediately followed by another heading.
C24_NoEmptySection ==
    Returned("extract_sections") =>
        \A k \in DOMAIN fn_return.value : Strip(fn_return.value[k].content) # <<>>

(***************************************************************************)
(* Properties of the chunker.                                              *)
(***************************************************************************)
Paragraphs == Split(fn_call.text, ParagraphSep)
Rejoined == Join(fn_return.value, ParagraphSep)

\* C16: for any section text and maximum length L, every chunk the chunker
\* emits has length at most L, except a chunk that consists of a single
\* paragraph (trimmed) which alone is longer than L.
C16_ChunkLength ==
    Returned("chunk_text") =>
        \A k \in DOMAIN fn_return.value :
            LET chunk == fn_return.value[k]
            IN  \/ Len(chunk) <= fn_call.max_length
                \/ /\ Find(chunk, ParagraphSep) = 0
                   /\ \E j \in DOMAIN Paragraphs :
                         /\ Len(Paragraphs[j]) > fn_call.max_length
                         /\ chunk = Strip(Paragraphs[j])

\* A chunk within the maximum, then an oversized paragraph as a chunk of its own.
C16_Witness ==
    /\ Returned("chunk_text")
    /\ Len(fn_return.value) = 2
    /\ Len(fn_return.value[1]) <= fn_call.max_length
    /\ Len(fn_return.value[2]) > fn_call.max_length

\* The characters of a text that are not whitespace, in order.
NoWhitespace(s) == SelectSeq(s, LAMBDA c : c \notin Whitespace)

\* No paragraph is empty or begins or ends with whitespace.
TrimmedParagraphs ==
    \A j \in DOMAIN Paragraphs :
        /\ Len(Paragraphs[j]) > 0
        /\ Paragraphs[j][1] \notin Whitespace
        /\ Paragraphs[j][Len(Paragraphs[j])] \notin Whitespace

\* C17 as stated: for any section text and maximum length, joining the
\* emitted chunks in order with the blank-line separator reproduces the
\* original section text trimmed of leading and trailing whitespace.
C17_Original ==
    Returned("chunk_text") => Rejoined = Strip(fn_call.text)

\* C17 amended: joining the emitted chunks in order with the blank-line
\* separator reproduces the trimmed section text when at most one chunk is
\* emitted and when no paragraph is empty or begins or ends with whitespace;
\* for any text it reproduces it up to whitespace (every chunk is trimmed, so
\* whitespace next to a chunk boundary is lost): the characters that are not
\* whitespace are all kept, in order.
C17_RejoinedChunks ==
    Returned("chunk_text") =>
        /\ NoWhitespace(Rejoined) = NoWhitespace(fn_call.text)
        /\ Len(fn_return.value) <= 1 => Rejoined = Strip(fn_call.text)
        /\ TrimmedParagraphs =>
              /\ Rejoined = fn_call.text
              /\ fn_call.text = Strip(fn_call.text)

\* A text of two trimmed paragraphs cut into two chunks, rejoined to itself.
C17_Witness ==
    /\ Returned("chunk_text")
    /\ TrimmedParagraphs
    /\ Len(fn_return.value) = 2
    /\ Len(fn_return.value[2]) = 2
    /\ Rejoined = fn_call.text

\* The chunks of a grouping g of the paragraphs (g[j] is the chunk paragraph j
\* went to, 0 for none): every chunk is a run of consecutive paragraphs, the
\* runs follow the input order.
Members(g, c) == {j \in DOMAIN g : g[j] = c}
Run(g, c) ==
    SubSeq(Paragraphs, CHOOSE j \in Members(g, c) : \A j2 \in Members(g, c) : j <= j2,
                       CHOOSE j \in Members(g, c) : \A j2 \in Members(g, c) : j2 <= j)
OrderedRuns(g) ==
    /\ \A c \in DOMAIN fn_return.value :
          /\ Members(g, c) # {}
          /\ \A j1, j2 \in Members(g, c) : \A j \in j1..j2 : g[j] \in {0, c} /\ (g[j] = 0 => j1 = j2)
    /\ \A j1, j2 \in DOMAIN g : (j1 < j2 /\ g[j1] # 0 /\ g[j2] # 0) => g[j1] <= g[j2]
    /\ \A j \in DOMAIN g :
          Len(Paragraphs[j]) > fn_call.max_length => (g[j] # 0 /\ Members(g, g[j]) = {j})

\* C18 as stated: the chunker never splits, truncates or drops a paragraph:
\* every paragraph of the input appears whole in exactly one emitted chunk,
\* paragraphs keep their input order across chunks, and a paragraph longer
\* than the maximum becomes a chunk holding that paragraph alone.
C18_Original ==
    Returned("chunk_text") =>
        \E g \in [DOMAIN Paragraphs -> DOMAIN fn_return.value] :
            /\ OrderedRuns(g)
            /\ \A c \in DOMAIN fn_return.value :
                  fn_return.value[c] = Join(Run(g, c), ParagraphSep)

\* C18 amended: the chunker never splits a paragraph and never moves one:
\* every chunk is a run of consecutive paragraphs joined by the separator and
\* trimmed of leading and trailing whitespace, the runs follow the input
\* order, every paragraph that is not empty belongs to exactly one chunk (an
\* empty paragraph at the start of a chunk belongs to none), and a paragraph
\* longer than the maximum is the only paragraph of its chunk.
C18_ParagraphsKeptWhole ==
    Returned("chunk_text") =>
        \E g \in [DOMAIN Paragraphs -> {0} \cup DOMAIN fn_return.value] :
            /\ OrderedRuns(g)
            /\ \A j \in DOMAIN g : g[j] = 0 => Len(Paragraphs[j]) = 0
            /\ \A c \in DOMAIN fn_return.value :
                  fn_return.value[c] = Strip(Join(Run(g, c), ParagraphSep))

\* An empty paragraph that went to no chunk, before an oversized paragraph
\* that is the one chunk, trimmed of the space it starts with.
C18_Witness ==
    /\ Returned("chunk_text")
    /\ fn_call.max_length = 3
    /\ Len(Paragraphs) = 2
    /\ Len(Paragraphs[1]) = 0
    /\ Len(Paragraphs[2]) > fn_call.max_length
    /\ Paragraphs[2][1] = " "
    /\ fn_return.value = <<Strip(Paragraphs[2])>>

(***************************************************************************)
(* Properties of the context block.                                        *)
(***************************************************************************)
\* The positions at which sep occurs in s.
Occurrences(s, sep) ==
    {p \in 1..(Len(s) - Len(sep) + 1) : SubSeq(s, p, p + Len(sep) - 1) = sep}

\* The label the k-th part begins with.
Label(k, title) ==
    <<"[", "S", "e", "c", "t", "i", "o", "n", " ">> \o Str(k) \o <<":", " ">> \o title \o <<"]">>

\* Length of the k-th part: label, newline, text.
PartLen(chunks, k) ==
    Len(Label(k, chunks[k].section_title)) + 1 + Len(chunks[k].content)

\* Where the k-th part begins in the block, counting from 0, when n-1
\* delimiters lie between the n parts.
RECURSIVE PartStart(_, _)
PartStart(chunks, k) ==
    IF k = 1 THEN 0
    ELSE PartStart(chunks, k - 1) + PartLen(chunks, k - 1) + Len(Delimiter)

\* The block is part 1, delimiter, part 2, ..., part n, the k-th part being
\* the label "[Section k: title]", a newline and the text of the k-th chunk.
LabeledParts(chunks, block) ==
    /\ Len(chunks) = 0 => block = <<>>
    /\ Len(chunks) > 0 =>
          Len(block) = PartStart(chunks, Len(chunks)) + PartLen(chunks, Len(chunks))
    /\ \A k \in DOMAIN chunks :
          LET at == PartStart(chunks, k)
              label == Label(k, chunks[k].section_title)
          IN  /\ SubSeq(block, at + 1, at + Len(label)) = label
              /\ block[at + Len(label) + 1] = "\n"
              /\ SubSeq(block, at + Len(label) + 2, at + PartLen(chunks, k))
                    = chunks[k].content
              /\ k > 1 => SubSeq(block, at - Len(Delimiter) + 1, at) = Delimiter

\* A line of the text is three hyphens.
HasRule(text) == \E l \in DOMAIN Split(text, Newline) : Split(text, Newline)[l] = <<"-", "-", "-">>

\* C27 as stated: the context block contains one labeled part per retrieved
\* chunk, numbered "Section 1" to "Section n" in the order the chunks were
\* retrieved, with the delimiter appearing exactly n-1 times between
\* consecutive parts; an empty chunk list gives an empty context block.
C27_Original ==
    Returned("_build_context") =>
        /\ LabeledParts(fn_call.chunks, fn_return.value)
        /\ Len(fn_call.chunks) > 0 =>
              Cardinality(Occurrences(fn_return.value, Delimiter)) = Len(fn_call.chunks) - 1

\* C27 amended: the context block is one labeled part per chunk, numbered
\* "Section 1" to "Section n" in the order of the chunks, with the delimiter
\* inserted exactly n-1 times, once between each two consecutive parts; an
\* empty chunk list gives an empty block.  The block holds exactly n-1
\* occurrences of the delimiter when no chunk text has a line of three
\* hyphens, and more than n-1 when a chunk text holds the delimiter itself.
C27_ContextBlock ==
    Returned("_build_context") =>
        LET chunks == fn_call.chunks
            block == fn_return.value
            n == Len(chunks)
            found == Cardinality(Occurrences(block, Delimiter))
        IN  /\ LabeledParts(chunks, block)
            /\ \A k \in 1..(n - 1) :
                  (PartStart(chunks, k + 1) - Len(Delimiter) + 1) \in Occurrences(block, Delimiter)
            /\ (\A k \in DOMAIN chunks : ~HasRule(chunks[k].content)) =>
                  found = (IF n = 0 THEN 0 ELSE n - 1)
            /\ (\E k \in DOMAIN chunks : Occurrences(chunks[k].content, Delimiter) # {}) =>
                  found > n - 1

\* Three chunks, the second one holding a horizontal rule between two
\* paragraphs: two delimiters inserted, three found.
C27_Witness ==
    /\ Returned("_build_context")
    /\ Len(fn_call.chunks) = 3
    /\ Occurrences(fn_call.chunks[2].content, Delimiter) # {}
    /\ ~HasRule(fn_call.chunks[1].content)
    /\ ~HasRule(fn_call.chunks[3].content)
    /\ Cardinality(Occurrences(fn_return.value, Delimiter)) = 3
    /\ fn_call.chunks[1].section_title # fn_call.chunks[3].section_title

====
